---- MODULE Spec2Model ----
(***************************************************************************)
(* Model of the autonomous-engagement core of the Telegram bot:            *)
(*   utils/autonomous_commenter.py  (per-chat decision engine)             *)
(*   utils/profile_manager.py       (profile store, AI enrichment)         *)
(*   utils/context_extractor.py     (MessageHistory)                       *)
(*   handlers/message_handler.py    (handle_message and the commands)      *)
(* Updates are dispatched one at a time (the Application is built without  *)
(* concurrent updates), so each handler is one atomic action.              *)
(***************************************************************************)
EXTENDS Integers, Sequences, FiniteSets, TLC

\* ---------------------------------------------------------------- bounds
MaxTime == 2
MaxMessages == 3
MaxReactions == 3
\* The updates handled in a run of the two groups.
MaxChatsMessages == 2

\* ------------------------------------------------------------- constants
NoTime == 0 - 1
Bot == [id |-> 0]
Users == {1, 2}
AdminUserIds == {1}
ChatType == (1 :> "group") @@ (2 :> "private") @@ (3 :> "group")
Chats == DOMAIN ChatType
GroupChats == {c \in Chats : ChatType[c] = "group"}
\* The group the deployments converse in; the second group takes part where
\* the chats are compared.
MainChats == {1}
MaxHistory == 100
InterestsCap == 10
WeaknessCap == 5
MistakesCap == 5
MomentsCap == 5
UserMessagesCount == 30

IsPrivate(chat) == ChatType[chat] = "private"

\* Group mood labels of ReactionAnalytics.get_group_mood.
Moods == {"Very Positive", "Positive", "Negative", "Mixed", "Neutral"}

\* random.random(), in hundredths.
Draws == {40, 55}

\* reaction_system.reaction_types of the configuration file.
ReactionTypes == {"thumbs_up", "fire"}

\* --------------------------------------------------------- configuration
\* The fields of BotConfig.yaml_config the modelled code reads.
\* comment_probability and reaction_probability are in hundredths.
CfgA == [enabled |-> TRUE, excluded_chats |-> {},
         min_messages_between_comments |-> 1,
         max_messages_between_comments |-> 2,
         comment_probability |-> 50,
         min_time_between_comments_seconds |-> 1,
         use_intelligent_decision |-> TRUE,
         use_ai_decision |-> FALSE,
         profiling_enabled |-> FALSE,
         enrichment_interval_messages |-> 2,
         context_window_size |-> 2,
         reaction_enabled |-> FALSE,
         add_own_reactions |-> TRUE,
         reaction_probability |-> 50,
         min_time_between_reactions_seconds |-> 1]

CfgB == [CfgA EXCEPT !.min_messages_between_comments = 3,
                     !.max_messages_between_comments = 3,
                     !.min_time_between_comments_seconds = 2,
                     !.use_intelligent_decision = FALSE]

CfgC == [CfgA EXCEPT !.excluded_chats = GroupChats,
                     !.min_messages_between_comments = 2,
                     !.use_ai_decision = TRUE]

\* Deployments that exercise the decision engine.
EngineConfigs == {CfgA, CfgB, CfgC}

CfgP == [enabled |-> FALSE, excluded_chats |-> {},
         min_messages_between_comments |-> 2,
         max_messages_between_comments |-> 2,
         comment_probability |-> 50,
         min_time_between_comments_seconds |-> 1,
         use_intelligent_decision |-> TRUE,
         use_ai_decision |-> TRUE,
         profiling_enabled |-> TRUE,
         enrichment_interval_messages |-> 2,
         context_window_size |-> 2,
         reaction_enabled |-> FALSE,
         add_own_reactions |-> TRUE,
         reaction_probability |-> 50,
         min_time_between_reactions_seconds |-> 1]

CfgQ == [CfgP EXCEPT !.enrichment_interval_messages = 1,
                     !.context_window_size = 1]

CfgR == [CfgP EXCEPT !.profiling_enabled = FALSE]

\* Deployments that exercise user profiling.
ProfileConfigs == {CfgP, CfgQ, CfgR}

CfgE == [CfgR EXCEPT !.reaction_enabled = TRUE]

CfgF == [CfgE EXCEPT !.reaction_enabled = FALSE]

CfgG == [CfgE EXCEPT !.add_own_reactions = FALSE]

CfgH == [CfgE EXCEPT !.min_time_between_reactions_seconds = 2]

\* Deployments that exercise the bot's own reactions.
ReactionConfigs == {CfgE, CfgF, CfgG, CfgH}

\* ----------------------------------------------------------------- state
VARIABLES
  config,        \* module-level config, shared with autonomous_commenter.config
  now,           \* reading of the wall clock (datetime.utcnow)
  handled,       \* number of updates handled so far
  chat_states,   \* AutonomousCommenter.chat_states: chat_id -> ChatState
  profiles,      \* ProfileManager.profiles: user_id -> UserProfile
  history,       \* MessageHistory.history: chat_id -> list of message dicts
  marked_at,     \* per chat, the clock reading of the latest mark_commented
  commented_at,  \* per chat, the clock reading of the latest autonomous
                 \* comment that was delivered
  lastCall,      \* the should_comment call of the latest handled update
  lastMark,      \* the mark_commented call of the latest handled update
  lastEnrich,    \* the enrich_profile_with_ai call of the latest handled update
  lastHandled,   \* the profile step of the latest handled update
  files,         \* profiles/users/user_<id>.json: user_id -> file content
  reaction_manager,  \* ReactionManager: its config and last_reaction_time
  lastOp,        \* the reaction, mood or comment operation observed last
  lastStore,     \* the profile store operation observed last
  tasks          \* the auto-save tasks, the task shutdown refers to, the app

vars == <<config, now, handled, chat_states, profiles, history, marked_at,
         commented_at,
          lastCall, lastMark, lastEnrich, lastHandled, files,
          reaction_manager, lastOp, lastStore, tasks>>

\* ------------------------------------------------------ sequence helpers
Min(a, b) == IF a < b THEN a ELSE b

\* Python's seq[-n:] (seq[-0:] is the whole list).
LastN(seq, n) ==
  IF n = 0 \/ Len(seq) <= n THEN seq
  ELSE SubSeq(seq, Len(seq) - n + 1, Len(seq))

Contains(seq, x) == \E i \in 1..Len(seq) : seq[i] = x

\* ------------------------------------------------------- decision engine
\* Variant: a draw whose upper end is one past the configured maximum.
RandomThresholdWide(cfg) ==
  cfg.min_messages_between_comments..(cfg.max_messages_between_comments + 1)

\* random.randint(min, max) of the configuration in force.
RandomThreshold(cfg) ==
  cfg.min_messages_between_comments..cfg.max_messages_between_comments

ChatState(threshold) ==
  [messages_since_last_comment |-> 0,
   last_comment_time |-> NoTime,
   next_comment_threshold |-> threshold,
   recent_messages |-> <<>>]

get_chat_state(states, chat, roll) ==
  IF chat \in DOMAIN states THEN states
  ELSE states @@ (chat :> ChatState(roll))

add_message(states, cfg, chat, msg, roll) ==
  LET s0 == get_chat_state(states, chat, roll)
      st == s0[chat]
      appended == Append(st.recent_messages, msg)
      window == IF Len(appended) > cfg.context_window_size
                THEN LastN(appended, cfg.context_window_size)
                ELSE appended
  IN [s0 EXCEPT ![chat] =
        [st EXCEPT !.messages_since_last_comment = @ + 1,
                   !.recent_messages = window]]

\* Variant: only two replies to the bot in a row hold the comment back.
is_good_time_to_comment_both(st) ==
  LET msgs == st.recent_messages
      recent == IF Len(msgs) >= 5 THEN LastN(msgs, 5) ELSE msgs
      last2 == LastN(recent, 2)
      recent_users == {recent[i].user : i \in 1..Len(recent)} \ {Bot.id}
  IN IF recent = <<>> THEN FALSE
     ELSE IF \A i \in 1..Len(last2) : last2[i].reply_to_bot THEN FALSE
     ELSE IF Cardinality(recent_users) >= 2 THEN TRUE
     ELSE TRUE

is_good_time_to_comment(st) ==
  LET msgs == st.recent_messages
      recent == IF Len(msgs) >= 5 THEN LastN(msgs, 5) ELSE msgs
      last2 == LastN(recent, 2)
      recent_users == {recent[i].user : i \in 1..Len(recent)} \ {Bot.id}
  IN IF recent = <<>> THEN FALSE
     ELSE IF \E i \in 1..Len(last2) : last2[i].reply_to_bot THEN FALSE
     ELSE IF Cardinality(recent_users) >= 2 THEN TRUE
     ELSE TRUE

\* The value should_comment compares its draw against; the reactions of the
\* chat and its mood are not read.
probability_used(cfg) == cfg.comment_probability

\* Variant: the minimum-message check left out.
floor_blocks_removed(st, cfg) == FALSE

floor_blocks(st, cfg) ==
  st.messages_since_last_comment < cfg.min_messages_between_comments

\* Variant: the time since the last comment read one second long.
time_since_long(st, clock) == clock - st.last_comment_time + 1

\* time_since.total_seconds(): the seconds since the last comment.
time_since(st, clock) == clock - st.last_comment_time

\* Variant: the minimum-time check left out.
in_cooldown_removed(st, cfg, clock) == FALSE

in_cooldown(st, cfg, clock) ==
  /\ st.last_comment_time # NoTime
  /\ time_since(st, clock) < cfg.min_time_between_comments_seconds

\* Variant: a failed draw also starts the count of messages again.
should_comment_recounted(states, cfg, chat, clock, roll, draw, reroll) ==
  IF ~cfg.enabled
  THEN [result |-> FALSE, outcome |-> "disabled", states |-> states]
  ELSE IF chat \in cfg.excluded_chats
  THEN [result |-> FALSE, outcome |-> "excluded", states |-> states]
  ELSE
    LET s0 == get_chat_state(states, chat, roll)
        st == s0[chat]
    IN IF floor_blocks(st, cfg)
       THEN [result |-> FALSE, outcome |-> "floor", states |-> s0]
       ELSE IF in_cooldown(st, cfg, clock)
       THEN [result |-> FALSE, outcome |-> "cooldown", states |-> s0]
       ELSE IF st.messages_since_last_comment < st.next_comment_threshold
       THEN [result |-> FALSE, outcome |-> "threshold", states |-> s0]
       ELSE IF draw > probability_used(cfg)
       THEN [result |-> FALSE, outcome |-> "draw_failed",
             states |-> [s0 EXCEPT ![chat].next_comment_threshold = reroll,
                                   ![chat].messages_since_last_comment = 0]]
       ELSE IF cfg.use_intelligent_decision /\ ~is_good_time_to_comment(st)
       THEN [result |-> FALSE, outcome |-> "bad_time", states |-> s0]
       ELSE [result |-> TRUE, outcome |-> "ok", states |-> s0]

\* Result, deciding branch and chat states after should_comment.
should_comment(states, cfg, chat, clock, roll, draw, reroll) ==
  IF ~cfg.enabled
  THEN [result |-> FALSE, outcome |-> "disabled", states |-> states]
  ELSE IF chat \in cfg.excluded_chats
  THEN [result |-> FALSE, outcome |-> "excluded", states |-> states]
  ELSE
    LET s0 == get_chat_state(states, chat, roll)
        st == s0[chat]
    IN IF floor_blocks(st, cfg)
       THEN [result |-> FALSE, outcome |-> "floor", states |-> s0]
       ELSE IF in_cooldown(st, cfg, clock)
       THEN [result |-> FALSE, outcome |-> "cooldown", states |-> s0]
       ELSE IF st.messages_since_last_comment < st.next_comment_threshold
       THEN [result |-> FALSE, outcome |-> "threshold", states |-> s0]
       ELSE IF draw > probability_used(cfg)
       THEN [result |-> FALSE, outcome |-> "draw_failed",
             states |-> [s0 EXCEPT ![chat].next_comment_threshold = reroll]]
       ELSE IF cfg.use_intelligent_decision /\ ~is_good_time_to_comment(st)
       THEN [result |-> FALSE, outcome |-> "bad_time", states |-> s0]
       ELSE [result |-> TRUE, outcome |-> "ok", states |-> s0]

\* Variant: the comment time is not stamped.
mark_commented_unstamped(states, chat, clock, roll, roll2) ==
  LET s0 == get_chat_state(states, chat, roll)
  IN [s0 EXCEPT ![chat] =
        [@ EXCEPT !.messages_since_last_comment = 0,
                  !.next_comment_threshold = roll2]]

mark_commented(states, chat, clock, roll, roll2) ==
  LET s0 == get_chat_state(states, chat, roll)
  IN [s0 EXCEPT ![chat] =
        [@ EXCEPT !.messages_since_last_comment = 0,
                  !.last_comment_time = clock,
                  !.next_comment_threshold = roll2]]

\* ------------------------------------------------------------------ texts
\* The words of the modelled texts, in order.
TextTokens ==
  ("hello" :> <<"hello">>)
  @@ ("privet_cyr" :> <<"privet_cyr">>)
  @@ ("/reload" :> <<"/reload">>)
  @@ ("/context" :> <<"/context">>)
  @@ ("/comment" :> <<"/comment">>)
  @@ ("this is so funny lol" :> <<"this", "is", "so", "funny", "lol">>)
  @@ ("WOW great" :> <<"WOW", "great">>)
  @@ ("nice fire" :> <<"nice", "fire">>)
  @@ ("amazing question" :> <<"amazing", "question">>)
  @@ ("think and look" :> <<"think", "and", "look">>)
  @@ ("look exactly" :> <<"look", "exactly">>)
  @@ ("exactly right" :> <<"exactly", "right">>)
  @@ ("right" :> <<"right">>)
  @@ ("haha wow" :> <<"haha", "wow">>)
  @@ ("why does this happen" :> <<"why", "does", "this", "happen">>)
  @@ ("funny news?" :> <<"funny", "news", "?">>)
  @@ ("news?" :> <<"news", "?">>)
  @@ ("" :> <<>>)

\* str.lower() of a word.
Lower(word) == IF word = "WOW" THEN "wow" ELSE word

text_lower(text) ==
  [i \in 1..Len(TextTokens[text]) |-> Lower(TextTokens[text][i])]

\* any(word in text for word in words)
AnyWord(words, lowered) == \E i \in 1..Len(lowered) : lowered[i] \in words

\* --------------------------------------------------------- profile store
\* ReactionPatterns(): the nested dataclass of the reaction counters.
ReactionPatterns ==
  [class |-> "ReactionPatterns",
   favorite_reactions |-> <<>>,
   reaction_targets |-> <<>>,
   emotional_responses |-> <<>>,
   total_reactions |-> 0]

\* UserProfile(user_id=...): the fields the modelled operations touch.
UserProfile(user_id) ==
  [user_id |-> user_id,
   message_count |-> 0,
   chats |-> <<>>,
   language_preference |-> "en",
   interests |-> <<>>,
   technical |-> <<>>,
   personal |-> <<>>,
   tone |-> "neutral",
   humor_type |-> "unknown",
   common_mistakes |-> <<>>,
   embarrassing_moments |-> <<>>,
   successful_roasts |-> 0,
   topics_hit |-> <<>>,
   last_roasted |-> NoTime,
   topics |-> <<>>,
   relationships |-> <<>>,
   reaction_patterns |-> ReactionPatterns]

\* UserProfile.to_dict (dataclasses.asdict): nested dataclasses become dicts.
AsDict(instance) == [k \in DOMAIN instance \ {"class"} |-> instance[k]]

to_dict(p) ==
  [user_id |-> p.user_id,
   message_count |-> p.message_count,
   chats |-> p.chats,
   topics |-> p.topics,
   speaking_style |-> [tone |-> p.tone],
   interests |-> p.interests,
   humor_type |-> p.humor_type,
   weaknesses |-> [technical |-> p.technical, personal |-> p.personal],
   embarrassing_moments |-> p.embarrassing_moments,
   patterns |-> [common_mistakes |-> p.common_mistakes],
   relationships |-> p.relationships,
   language_preference |-> p.language_preference,
   roast_history |-> [successful_roasts |-> p.successful_roasts,
                      topics_hit |-> p.topics_hit,
                      last_roasted |-> p.last_roasted],
   reaction_patterns |-> AsDict(p.reaction_patterns)]

\* json.dump writes the keys of a dict as strings: an integer key comes back
\* from json.load as its decimal text.
StringKeys(map) ==
  [k \in {ToString(i) : i \in DOMAIN map} |->
     map[CHOOSE i \in DOMAIN map : ToString(i) = k]]

\* The content of a profile file after json.dump(profile.to_dict(), f).
json_dump(d) ==
  [kind |-> "json",
   data |-> [d EXCEPT !.relationships = StringKeys(@)]]

\* A file that json.load or from_dict rejects.
CorruptFile == [kind |-> "corrupt"]

json_load(file) == file.data

\* Variant: the reaction patterns are left as the dict that json.load gave.
from_dict_untyped(data) ==
  [user_id |-> data.user_id,
   message_count |-> data.message_count,
   chats |-> data.chats,
   language_preference |-> data.language_preference,
   interests |-> data.interests,
   technical |-> data.weaknesses.technical,
   personal |-> data.weaknesses.personal,
   tone |-> data.speaking_style.tone,
   humor_type |-> data.humor_type,
   common_mistakes |-> data.patterns.common_mistakes,
   embarrassing_moments |-> data.embarrassing_moments,
   successful_roasts |-> data.roast_history.successful_roasts,
   topics_hit |-> data.roast_history.topics_hit,
   last_roasted |-> data.roast_history.last_roasted,
   topics |-> data.topics,
   relationships |-> data.relationships,
   reaction_patterns |-> data.reaction_patterns]

\* UserProfile.from_dict: the nested dicts are turned back into dataclasses.
from_dict(data) ==
  [user_id |-> data.user_id,
   message_count |-> data.message_count,
   chats |-> data.chats,
   language_preference |-> data.language_preference,
   interests |-> data.interests,
   technical |-> data.weaknesses.technical,
   personal |-> data.weaknesses.personal,
   tone |-> data.speaking_style.tone,
   humor_type |-> data.humor_type,
   common_mistakes |-> data.patterns.common_mistakes,
   embarrassing_moments |-> data.embarrassing_moments,
   successful_roasts |-> data.roast_history.successful_roasts,
   topics_hit |-> data.roast_history.topics_hit,
   last_roasted |-> data.roast_history.last_roasted,
   topics |-> data.topics,
   relationships |-> data.relationships,
   reaction_patterns |->
     [k \in DOMAIN data.reaction_patterns \cup {"class"} |->
        IF k = "class" THEN "ReactionPatterns"
        ELSE data.reaction_patterns[k]]]

\* The file part of load_profile: the profile read from the file of the
\* user, or, when there is no file or reading it raises, the defaults.
read_profile_file(fs, user_id) ==
  IF user_id \in DOMAIN fs /\ fs[user_id].kind = "json"
  THEN from_dict(json_load(fs[user_id]))
  ELSE UserProfile(user_id)

\* Where load_profile takes the profile from.
load_source(profs, user_id) ==
  IF user_id \in DOMAIN profs THEN "cache"
  ELSE IF user_id \notin DOMAIN files THEN "missing"
  ELSE IF files[user_id].kind = "json" THEN "file"
  ELSE "unreadable"

\* Variant: a file that cannot be read ends the call with its exception.
load_profile_unguarded(profs, user_id) ==
  IF user_id \in DOMAIN profs THEN profs
  ELSE IF user_id \in DOMAIN files /\ files[user_id].kind # "json" THEN profs
  ELSE profs @@ (user_id :> read_profile_file(files, user_id))

\* The cache after load_profile: the cached profile if there is one, else the
\* profile read from the file of the user, else (no file, or a file that
\* cannot be read) a profile with the defaults.
load_profile(profs, user_id) ==
  IF user_id \in DOMAIN profs THEN profs
  ELSE profs @@ (user_id :> read_profile_file(files, user_id))

\* The files after save_profile.
save_profile(fs, profs, user_id) ==
  IF user_id \notin DOMAIN profs THEN fs
  ELSE [u \in DOMAIN fs \cup {user_id} |->
          IF u = user_id THEN json_dump(to_dict(profs[user_id])) ELSE fs[u]]

\* The files after save_all_profiles.
save_all_profiles(fs, profs) ==
  [u \in DOMAIN fs \cup DOMAIN profs |->
     IF u \in DOMAIN profs THEN json_dump(to_dict(profs[u])) ELSE fs[u]]

\* any('\u0400' <= char <= '\u04FF' for char in text)
HasCyrillic(text) == text = "privet_cyr"

\* Variant: the preference follows the latest text.
detect_language_latest(old, text) ==
  IF HasCyrillic(text) THEN "ru" ELSE "en"

\* The language heuristic of update_profile_from_message for a message with
\* text: Cyrillic sets "ru"; otherwise only an empty preference becomes "en".
detect_language(old, text) ==
  IF HasCyrillic(text) THEN "ru"
  ELSE IF old = "" THEN "en"
  ELSE old

\* Variant: the message is not counted.
updated_profile_uncounted(pr, msg) ==
  [pr EXCEPT !.chats = IF Contains(@, msg.chat) THEN @
                       ELSE Append(@, msg.chat),
             !.language_preference =
               IF msg.text # "" THEN detect_language(@, msg.text) ELSE @]

\* The field updates of update_profile_from_message on the loaded profile.
updated_profile(pr, msg) ==
  [pr EXCEPT !.message_count = @ + 1,
             !.chats = IF Contains(@, msg.chat) THEN @
                       ELSE Append(@, msg.chat),
             !.language_preference =
               IF msg.text # "" THEN detect_language(@, msg.text) ELSE @]

update_profile_from_message(profs, msg) ==
  [load_profile(profs, msg.user) EXCEPT
     ![msg.user] = updated_profile(@, msg)]

\* The loop "for x in new: if x and x not in lst: lst.append(x)";
\* item 0 stands for a falsy item (empty string, null).
RECURSIVE AppendFresh(_, _)
AppendFresh(lst, items) ==
  IF items = <<>> THEN lst
  ELSE LET x == Head(items)
       IN AppendFresh(IF x # 0 /\ ~Contains(lst, x) THEN Append(lst, x)
                      ELSE lst,
                      Tail(items))

\* Variant: lst[:cap], which keeps the oldest entries.
TruncateHead(lst, cap) == SubSeq(lst, 1, Min(Len(lst), cap))

\* lst[-cap:] after the loop.
Truncate(lst, cap) == LastN(lst, cap)

\* One "if key in analysis" block of a list field: absent keys are skipped,
\* a value that cannot be iterated raises, a list is merged and truncated.
MergeList(lst, field, cap) ==
  IF field.kind = "absent" THEN [ok |-> TRUE, value |-> lst]
  ELSE IF field.kind = "bad" THEN [ok |-> FALSE, value |-> lst]
  ELSE [ok |-> TRUE, value |-> Truncate(AppendFresh(lst, field.items), cap)]

MergeScalar(old, field) ==
  IF field.kind = "absent" THEN old ELSE field.value

\* The "Update profile with AI insights" block: the fields are merged in the
\* order of the code and the first exception ends the block.
MergeAnalysis(pr, a) ==
  LET m1 == MergeList(pr.interests, a.interests, InterestsCap)
      p1 == [pr EXCEPT !.interests = m1.value]
      m2 == MergeList(p1.technical, a.technical_weaknesses, WeaknessCap)
      p2 == [p1 EXCEPT !.technical = m2.value]
      m3 == MergeList(p2.personal, a.personal_weaknesses, WeaknessCap)
      p3 == [p2 EXCEPT !.personal = m3.value]
      p4 == [p3 EXCEPT !.tone = MergeScalar(@, a.speaking_tone),
                       !.humor_type = MergeScalar(@, a.humor_type)]
      m5 == MergeList(p4.common_mistakes, a.common_mistakes, MistakesCap)
      p5 == [p4 EXCEPT !.common_mistakes = m5.value]
      m6 == MergeList(p5.embarrassing_moments, a.embarrassing_moments,
                      MomentsCap)
      p6 == [p5 EXCEPT !.embarrassing_moments = m6.value]
  IN IF ~m1.ok THEN pr
     ELSE IF ~m2.ok THEN p1
     ELSE IF ~m3.ok THEN p2
     ELSE IF ~m5.ok THEN p4
     ELSE IF ~m6.ok THEN p5
     ELSE p6

\* enrich_profile_with_ai: the cache after the call and whether it raised.
\* When the provider call itself raises, the clause "except
\* json.JSONDecodeError" is evaluated while json, which "import json" inside
\* the function makes a local, is still unbound: the UnboundLocalError of
\* that evaluation leaves the function.
enrich_loaded(p0, user_id, resp) ==
  IF resp.kind = "error"
  THEN [profiles |-> p0, raised |-> TRUE]
  ELSE IF resp.kind = "text"
  THEN [profiles |-> p0, raised |-> FALSE]
  ELSE [profiles |-> [p0 EXCEPT ![user_id] = MergeAnalysis(@, resp)],
        raised |-> FALSE]

enrich_profile_with_ai(profs, user_id, resp) ==
  enrich_loaded(load_profile(profs, user_id), user_id, resp)

record_roast(profs, target, topic, clock) ==
     [load_profile(profs, target) EXCEPT ![target] =
        [@ EXCEPT !.successful_roasts = @ + 1,
                  !.topics_hit = IF Contains(@, topic) THEN @
                                 ELSE Append(@, topic),
                  !.last_roasted = clock]]

\* The content buckets of track_reaction, in the order of the if/elif chain.
TargetBuckets ==
  <<[bucket |-> "humor",
     words |-> {"joke", "funny", "~joy", "~grin", "haha", "lol"}],
    [bucket |-> "news", words |-> {"news", "update", "announcement"}],
    [bucket |-> "questions",
     words |-> {"?", "question", "how", "what", "why"}]>>

\* The emoji lists of track_reaction, as the source file stores them.
positive_emojis ==
  {"~thumbs_up", "~heart", "~fire", "~blush", "~joy", "~party", "~check",
   "~hundred"}
negative_emojis == {"~thumbs_down", "~angry", "~cry", "~broken_heart", "~cross"}
thinking_emojis == {"~thinking", "~thought", "~monocle"}

\* The "Categorize emotional response" chain of track_reaction.
emotion_of(emoji) ==
  IF emoji \in positive_emojis THEN "positive"
  ELSE IF emoji \in negative_emojis THEN "negative"
  ELSE IF emoji \in thinking_emojis THEN "thoughtful"
  ELSE "neutral"

\* Variant: a key that is already counted is set to 1 again.
Increment_restarted(counts, key) ==
  [k \in DOMAIN counts \cup {key} |-> IF k # key THEN counts[k] ELSE 1]

\* "if key in counts: counts[key] += 1 else: counts[key] = 1"
Increment(counts, key) ==
  [k \in DOMAIN counts \cup {key} |->
     IF k # key THEN counts[k]
     ELSE IF key \in DOMAIN counts THEN counts[key] + 1
     ELSE 1]

\* track_reaction: the cache after the call.
RECURSIVE FirstBucket(_, _)
FirstBucket(lowered, n) ==
  IF n > Len(TargetBuckets) THEN ""
  ELSE IF AnyWord(TargetBuckets[n].words, lowered) THEN TargetBuckets[n].bucket
  ELSE FirstBucket(lowered, n + 1)

tracked_targets(targets, bucket) ==
  IF bucket = "" \/ Contains(targets, bucket) THEN targets
  ELSE Append(targets, bucket)

track_reaction(profs, user_id, emoji, target_message_text) ==
  [load_profile(profs, user_id) EXCEPT
     ![user_id].reaction_patterns =
       [@ EXCEPT
          !.favorite_reactions = Increment(@, emoji),
          !.total_reactions = @ + 1,
          !.reaction_targets =
            tracked_targets(@, FirstBucket(text_lower(target_message_text),
                                           1)),
          !.emotional_responses = Increment(@, emotion_of(emoji))]]

\* ------------------------------------------------------ reaction manager
\* The emoji literals of reaction_manager.py, profile_manager.py and
\* reaction_analytics.py are stored mis-encoded (the UTF-8 bytes of the emoji
\* read in a single-byte code page): "~x" is the stored text of emoji "x",
\* a text different from the emoji "x" that Telegram delivers and accepts.
\* The keyword rules of choose_reaction, in the order of the if/elif chain.
ReactionRules ==
  <<[reason |-> "humor detected", reaction |-> "~joy",
     words |-> {"lol", "haha", "lmao", "funny", "joke", "~joy", "~rofl"}],
    [reason |-> "surprise detected", reaction |-> "~scream",
     words |-> {"wtf", "wow", "omg", "!", "shocking"}],
    [reason |-> "positive sentiment", reaction |-> "~thumbs_up",
     words |-> {"good", "great", "awesome", "perfect", "nice", "~thumbs_up"}],
    [reason |-> "enthusiasm detected", reaction |-> "~fire",
     words |-> {"fire", "amazing", "incredible", "~fire"}],
    [reason |-> "question/thinking", reaction |-> "~thinking",
     words |-> {"hmm", "think", "?", "question"}],
    [reason |-> "attention keyword", reaction |-> "~eyes",
     words |-> {"watch", "see", "look", "~eyes"}],
    [reason |-> "agreement", reaction |-> "~hundred",
     words |-> {"100", "exactly", "agree", "true"}],
    [reason |-> "accuracy", reaction |-> "~target",
     words |-> {"right", "correct", "spot on", "exactly"}]>>

\* choose_reaction: the reaction and the reason that is logged; pick is the
\* value of random.choice(reaction_types).
RECURSIVE FirstRule(_, _)
FirstRule(lowered, n) ==
  IF n > Len(ReactionRules) THEN 0
  ELSE IF AnyWord(ReactionRules[n].words, lowered) THEN n
  ELSE FirstRule(lowered, n + 1)

\* Variant: the last matching rule decides.
choose_reaction_last_match(text, pick) ==
  LET matching == {n \in 1..Len(ReactionRules) :
                     AnyWord(ReactionRules[n].words, text_lower(text))}
      n == IF matching = {} THEN 0
           ELSE CHOOSE m \in matching : \A k \in matching : k <= m
  IN IF n = 0 THEN [reaction |-> pick, reason |-> "random choice"]
     ELSE [reaction |-> ReactionRules[n].reaction,
           reason |-> ReactionRules[n].reason]

choose_reaction(text, pick) ==
  LET n == FirstRule(text_lower(text), 1)
  IN IF n = 0 THEN [reaction |-> pick, reason |-> "random choice"]
     ELSE [reaction |-> ReactionRules[n].reaction,
           reason |-> ReactionRules[n].reason]

\* ReactionManager(config)
ReactionManager(cfg) == [config |-> cfg, last_reaction_time |-> <<>>]

\* time_since < min_time; without an entry the last time is 0, the epoch,
\* which lies further back than any configured minimum.
in_reaction_cooldown(rm, chat, clock) ==
  /\ chat \in DOMAIN rm.last_reaction_time
  /\ clock - rm.last_reaction_time[chat]
       < rm.config.min_time_between_reactions_seconds

should_react(rm, chat, clock, draw) ==
  IF ~rm.config.reaction_enabled
  THEN [result |-> FALSE, outcome |-> "disabled"]
  ELSE IF ~rm.config.add_own_reactions
  THEN [result |-> FALSE, outcome |-> "own_disabled"]
  ELSE IF in_reaction_cooldown(rm, chat, clock)
  THEN [result |-> FALSE, outcome |-> "cooldown"]
  ELSE [result |-> draw < rm.config.reaction_probability,
        outcome |-> "draw"]

\* Variant: the reaction is stamped on every chat that has an entry.
mark_reacted_every(rm, chat, clock) ==
  [rm EXCEPT !.last_reaction_time =
     [c \in DOMAIN rm.last_reaction_time \cup {chat} |-> clock]]

mark_reacted(rm, chat, clock) ==
  [rm EXCEPT !.last_reaction_time =
     [c \in DOMAIN rm.last_reaction_time \cup {chat} |->
        IF c = chat THEN clock ELSE rm.last_reaction_time[c]]]

\* ---------------------------------------------------- reaction analytics
\* The look-back window of get_group_mood in seconds (hours=24); the clock
\* of the model never gets that far, so whatever is tracked in a run lies
\* inside the window.
LookBackSeconds == 24 * 3600

\* The emoji sets of _classify_emoji_sentiment, as the source file stores
\* them.
analytics_positive_emojis ==
  positive_emojis \cup {"~grin", "~smiley", "~beaming", "~laugh"}
analytics_negative_emojis ==
  negative_emojis \cup {"~disappointed", "~pensive", "~confused", "~persevere"}

_classify_emoji_sentiment(emoji) ==
  IF emoji \in analytics_positive_emojis THEN "positive"
  ELSE IF emoji \in analytics_negative_emojis THEN "negative"
  ELSE "neutral"

\* ReactionAnalytics._get_recent_reactions: what the store of the analytics
\* object gives for the chat. ProfileManager has no method
\* get_recent_chat_reactions: with it the call raises AttributeError, which
\* is caught, and the list is empty. A store that has the method (the
\* constructor takes any profile_manager_instance) gives its list.
_get_recent_reactions(store, chat_id) ==
  IF store.kind = "ProfileManager" THEN <<>>
  ELSE store.recent

\* sentiment_counts[sentiment] after the loop over the reactions.
sentiment_count(recent, sentiment) ==
  Cardinality({i \in 1..Len(recent) :
                 _classify_emoji_sentiment(recent[i].emoji) = sentiment})

\* Variant: the percentage rounded to a whole number.
round_percentage_whole(count, total) ==
  10 * (((200 * count) + total) \div (2 * total))

\* round((count / total) * 100, 1), in tenths of a percent: the nearest
\* tenth, a tie going to the even one.
round_percentage(count, total) ==
  IF 2 * ((1000 * count) % total) < total
  THEN (1000 * count) \div total
  ELSE IF 2 * ((1000 * count) % total) > total
  THEN ((1000 * count) \div total) + 1
  ELSE ((1000 * count) \div total) + (((1000 * count) \div total) % 2)

\* _determine_overall_mood on the unrounded percentages of the counts.
_determine_overall_mood(positive, negative, total) ==
  IF 100 * positive > 60 * total THEN "Very Positive"
  ELSE IF 100 * positive > 40 * total THEN "Positive"
  ELSE IF 100 * negative > 40 * total THEN "Negative"
  ELSE IF 100 * positive > 25 * total THEN "Mixed"
  ELSE "Neutral"

_get_empty_mood_data ==
  [overall_mood |-> "Unknown",
   positive_percentage |-> 0,
   negative_percentage |-> 0,
   neutral_percentage |-> 0,
   active_users |-> 0,
   recent_reactions |-> 0]

mood_of(recent) ==
  IF recent = <<>> THEN _get_empty_mood_data
  ELSE [overall_mood |->
          _determine_overall_mood(sentiment_count(recent, "positive"),
                                  sentiment_count(recent, "negative"),
                                  Len(recent)),
        positive_percentage |->
          round_percentage(sentiment_count(recent, "positive"), Len(recent)),
        negative_percentage |->
          round_percentage(sentiment_count(recent, "negative"), Len(recent)),
        neutral_percentage |->
          round_percentage(sentiment_count(recent, "neutral"), Len(recent)),
        active_users |->
          Cardinality({recent[i].user_id : i \in 1..Len(recent)}),
        recent_reactions |-> Len(recent)]

\* get_group_mood of a ReactionAnalytics object whose store is store.
get_group_mood(store, chat_id) ==
  mood_of(_get_recent_reactions(store, chat_id))

\* ------------------------------------------------------- message history
IsCommand(text) == text \in {"/reload", "/context", "/comment"}

history_add_message(hist, msg) ==
  LET h0 == IF msg.chat \in DOMAIN hist THEN hist
            ELSE hist @@ (msg.chat :> <<>>)
      appended == Append(h0[msg.chat], [user |-> msg.user, text |-> msg.text])
  IN [h0 EXCEPT ![msg.chat] =
        IF Len(appended) > MaxHistory THEN LastN(appended, MaxHistory)
        ELSE appended]

\* get_user_messages: the lines that are joined into the returned string.
get_user_messages(hist, chat, user_id, count) ==
  IF chat \notin DOMAIN hist THEN <<>>
  ELSE LET ByUser(m) == m.user = user_id
           Usable(m) == ~IsCommand(m.text)
           recent == LastN(SelectSeq(hist[chat], ByUser), count)
       IN SelectSeq(recent, Usable)

clear_chat_history(hist, chat) ==
  [c \in DOMAIN hist \ {chat} |-> hist[c]]

\* ------------------------------------------------- provider and inputs
\* Shapes of a value in the analysis the provider returns.
Absent == [kind |-> "absent"]
Bad == [kind |-> "bad"]
List(items) == [kind |-> "list", items |-> items]
Value(v) == [kind |-> "value", value |-> v]

RespA == [kind |-> "json",
          interests |-> List(<<1, 2, 3, 4, 5, 6>>),
          technical_weaknesses |-> List(<<1, 2, 3>>),
          personal_weaknesses |-> List(<<1, 2, 3>>),
          speaking_tone |-> Value("casual"),
          humor_type |-> Value("witty"),
          common_mistakes |-> List(<<1, 2, 3>>),
          embarrassing_moments |-> List(<<1, 2, 3>>)]

RespB == [kind |-> "json",
          interests |-> List(<<7, 8, 9, 10, 11, 12>>),
          technical_weaknesses |-> List(<<4, 5, 6>>),
          personal_weaknesses |-> List(<<3, 4, 0, 4>>),
          speaking_tone |-> Value("formal"),
          humor_type |-> Absent,
          common_mistakes |-> Absent,
          embarrassing_moments |-> List(<<4, 1, 5, 6>>)]

\* A JSON object whose second list field is a number.
RespBadShape == [kind |-> "json",
                 interests |-> List(<<13>>),
                 technical_weaknesses |-> Bad,
                 personal_weaknesses |-> List(<<7>>),
                 speaking_tone |-> Value("sarcastic"),
                 humor_type |-> Value("dark"),
                 common_mistakes |-> List(<<7>>),
                 embarrassing_moments |-> List(<<7>>)]

\* The provider call raises / the reply is not JSON.
RespError == [kind |-> "error"]
RespText == [kind |-> "text"]

EnrichResponses == {RespA, RespB, RespBadShape, RespError, RespText}

\* An item of a list of the analysis that is a JSON number, not a string.
NonStrings == {100}

is_str(item) == item \notin NonStrings

\* A JSON analysis whose technical_weaknesses holds a number.
RespNumber == [kind |-> "json",
               interests |-> Absent,
               technical_weaknesses |-> List(<<100>>),
               personal_weaknesses |-> Absent,
               speaking_tone |-> Absent,
               humor_type |-> Absent,
               common_mistakes |-> Absent,
               embarrassing_moments |-> Absent]

\* generate_comment came back without a comment (None); target_user_id 0
\* stands for null.
NoComment == [ok |-> FALSE, comment_type |-> "observation", target_user_id |-> 0]

\* What generate_autonomous_comment gives: it raises, or it returns a text.
\* A text is the sequence of its parts: "p" is prose, "{" and "}" are the
\* braces, and the other parts are the members written between braces.
ReplyError == [kind |-> "error"]
Reply(parts) == [kind |-> "text", parts |-> parts]

\* The members a part writes, as the dict json.loads makes of them.
Members ==
  [ok |-> [should_comment |-> TRUE, comment |-> "hi"],
   roast |-> [should_comment |-> TRUE, comment |-> "hi", type |-> "roast",
              target_user_id |-> 1],
   no |-> [should_comment |-> FALSE, comment |-> "hi"],
   empty |-> [should_comment |-> TRUE, comment |-> ""]]

\* str.find and str.rfind of a part: the position, 0 when there is none
\* (positions count from 1).
find(parts, x) ==
  IF \E i \in 1..Len(parts) : parts[i] = x
  THEN CHOOSE i \in 1..Len(parts) :
         /\ parts[i] = x
         /\ \A j \in 1..(i - 1) : parts[j] # x
  ELSE 0

rfind(parts, x) ==
  IF \E i \in 1..Len(parts) : parts[i] = x
  THEN CHOOSE i \in 1..Len(parts) :
         /\ parts[i] = x
         /\ \A j \in (i + 1)..Len(parts) : parts[j] # x
  ELSE 0

\* A later member of an object replaces an earlier one of the same key.
RECURSIVE merge_members(_, _)
merge_members(data, parts) ==
  IF parts = <<>> THEN data
  ELSE merge_members([k \in DOMAIN data \cup DOMAIN Members[Head(parts)] |->
                        IF k \in DOMAIN Members[Head(parts)]
                        THEN Members[Head(parts)][k] ELSE data[k]],
                     Tail(parts))

\* json.loads: the text is one object, a brace pair around members only;
\* anything else raises.
json_loads(parts) ==
  IF /\ Len(parts) >= 2
     /\ parts[1] = "{"
     /\ parts[Len(parts)] = "}"
     /\ \A i \in 2..(Len(parts) - 1) : parts[i] \in DOMAIN Members
  THEN [ok |-> TRUE,
        data |-> merge_members(<<>>, SubSeq(parts, 2, Len(parts) - 1))]
  ELSE [ok |-> FALSE, data |-> <<>>]

dict_get(data, key, default) ==
  IF key \in DOMAIN data THEN data[key] ELSE default

\* data.get('should_comment') and data.get('comment')
accepts(data) ==
  /\ dict_get(data, "should_comment", FALSE)
  /\ dict_get(data, "comment", "") # ""

parsed(loaded) ==
  IF loaded.ok /\ accepts(loaded.data)
  THEN loaded ELSE [ok |-> FALSE, data |-> <<>>]

\* _parse_comment_response: the data, or ok FALSE for None.
_parse_comment_response(parts) ==
  IF find(parts, "{") >= 1 /\ rfind(parts, "}") > find(parts, "{") - 1
  THEN parsed(json_loads(SubSeq(parts, find(parts, "{"),
                                rfind(parts, "}"))))
  ELSE [ok |-> FALSE, data |-> <<>>]

AutonomousComment(p) ==
  IF p.ok
  THEN [ok |-> TRUE,
        comment_type |-> dict_get(p.data, "type", "observation"),
        target_user_id |-> dict_get(p.data, "target_user_id", 0)]
  ELSE NoComment

\* The try block of generate_comment: the provider call and the parsing.
comment_result(reply) ==
  IF reply.kind = "error" THEN NoComment
  ELSE AutonomousComment(_parse_comment_response(reply.parts))

\* Replies of the provider: an error, a comment, a roast of user 1.
CommentReplies ==
  {ReplyError, Reply(<<"{", "ok", "}">>), Reply(<<"{", "roast", "}">>)}

\* Text messages in a group chat; user 2 may be replying to the bot.
PlainMessages ==
  {m \in [chat : MainChats, user : Users, text : {"hello"},
          reply_to_bot : BOOLEAN] : m.reply_to_bot => m.user = 2}

CommandMessage(chat, user, text) ==
  [chat |-> chat, user |-> user, text |-> text, reply_to_bot |-> FALSE]

NoCall == [called |-> FALSE]

\* --------------------------------------------------------------- handlers
\* Variant: the trigger fires on every message.
enrichment_due_always(count, interval) == TRUE

\* The enrichment trigger of handle_message.
enrichment_due(count, interval) == count % interval = 0

\* The user's lines that handle_message hands to the enrichment.
enrichment_text(hist, cfg, msg) ==
  get_user_messages(hist, msg.chat, msg.user,
                    Min(UserMessagesCount, cfg.context_window_size))

\* handle_message, lines 73-119, after update_profile_from_message gave
\* the cache p1: e is the outcome of the enrichment, which runs when call
\* holds; the profile is saved at the end.
ProfileStepAfter(profs, p1, e, call, hist, cfg, msg, resp) ==
  [profiles |-> IF call THEN e.profiles ELSE p1,
   files |-> save_profile(files, IF call THEN e.profiles ELSE p1, msg.user),
   store |-> [called |-> TRUE, op |-> "update_profile_from_message",
              user |-> msg.user, text |-> msg.text,
              source |-> load_source(profs, msg.user),
              loaded |-> load_profile(profs, msg.user)[msg.user],
              after |-> p1[msg.user]],
   enrich |-> IF call
              THEN [called |-> TRUE, user |-> msg.user, resp |-> resp,
                    raised |-> e.raised,
                    before |-> p1[msg.user],
                    after |-> e.profiles[msg.user]]
              ELSE NoCall,
   handled |-> [called |-> TRUE, user |-> msg.user,
                message_count |-> p1[msg.user].message_count,
                interval |-> cfg.enrichment_interval_messages,
                chat |-> msg.chat, history |-> hist,
                count |-> Min(UserMessagesCount, cfg.context_window_size),
                enrich_calls |-> IF call THEN 1 ELSE 0]]

ProfileStepUpdated(profs, p1, hist, cfg, msg, resp) ==
  ProfileStepAfter(profs, p1, enrich_profile_with_ai(p1, msg.user, resp),
                   /\ enrichment_due(p1[msg.user].message_count,
                                     cfg.enrichment_interval_messages)
                   /\ enrichment_text(hist, cfg, msg) # <<>>,
                   hist, cfg, msg, resp)

\* handle_message, lines 73-119: profile update, enrichment trigger, save.
ProfileStep(profs, hist, cfg, msg, resp) ==
  IF ~(cfg.profiling_enabled /\ msg.user # Bot.id)
  THEN [profiles |-> profs, enrich |-> NoCall, handled |-> NoCall,
        files |-> files, store |-> NoCall]
  ELSE ProfileStepUpdated(profs, update_profile_from_message(profs, msg),
                          hist, cfg, msg, resp)

load_profiles(profs, ids) ==
  [u \in DOMAIN profs \cup ids |-> load_profile(profs, u)[u]]

\* The users whose profiles generate_comment loads: those of the recent
\* messages, or of the last ten history entries when there are none.
comment_user_ids(recent, last10) ==
  IF recent # <<>> THEN {recent[i].user : i \in 1..Len(recent)}
  ELSE {last10[i].user : i \in 1..Len(last10)} \ {0, Bot.id}

NotBot(m) == m.user # Bot.id

\* conversation_context is not empty: a message of the window has a text.
has_conversation(last10) == \E i \in 1..Len(last10) : last10[i].text # ""

\* ', '.join of the summary works: the items it takes are strings.
joins(lst, n) == \A i \in 1..Min(Len(lst), n) : is_str(lst[i])

summary_formats(pr) ==
  /\ joins(pr.technical, 3)
  /\ joins(pr.personal, 3)
  /\ joins(pr.common_mistakes, 3)
  /\ joins(pr.embarrassing_moments, 2)

\* After the profiles are loaded: the summaries are formatted, which raises
\* on an item that is not a string, and then the provider is asked.
generate_loaded(s0, loaded, ids, reply) ==
  IF \E u \in ids : ~summary_formats(loaded[u])
  THEN [comment |-> NoComment, states |-> s0, profiles |-> loaded,
        raised |-> TRUE, asked |-> FALSE]
  ELSE [comment |-> comment_result(reply), states |-> s0,
        profiles |-> loaded, raised |-> FALSE, asked |-> TRUE]

generate_from(s0, recent, dicts, profs, reply) ==
  IF \/ recent = <<>> /\ dicts = <<>>
     \/ ~has_conversation(LastN(IF recent # <<>> THEN recent ELSE dicts, 10))
  THEN [comment |-> NoComment, states |-> s0, profiles |-> profs,
        raised |-> FALSE, asked |-> FALSE]
  ELSE generate_loaded(s0,
                       load_profiles(profs,
                                     comment_user_ids(recent,
                                                      LastN(dicts, 10))),
                       comment_user_ids(recent, LastN(dicts, 10)), reply)

generate_with_state(s0, profs, hist, chat, reply) ==
  generate_from(s0, SelectSeq(s0[chat].recent_messages, NotBot),
                IF chat \in DOMAIN hist THEN hist[chat] ELSE <<>>,
                profs, reply)

\* generate_comment: the comment (NoComment for None), and the chat states
\* and the profile cache after the call.
generate_comment(states, profs, hist, chat, roll, reply) ==
  generate_with_state(get_chat_state(states, chat, roll), profs, hist, chat,
                      reply)

\* The tail shared by check_and_make_autonomous_comment and
\* handle_comment_command, after generate_comment gave g: send,
\* mark_commented, record_roast.
\* Variant: the chat state is reset as soon as a comment was generated.
CommentGenerated_marked_first(g, delivered, chat, clock, roll, roll2) ==
  [states |-> IF g.comment.ok
              THEN mark_commented(g.states, chat, clock, roll, roll2)
              ELSE g.states,
   profiles |-> IF /\ delivered
                   /\ g.comment.target_user_id # 0
                   /\ g.comment.comment_type = "roast"
                THEN record_roast(g.profiles, g.comment.target_user_id,
                                  g.comment.comment_type, clock)
                ELSE g.profiles,
   delivered |-> delivered,
   previous |-> g.states[chat].last_comment_time,
   comment |-> g.comment,
   raised |-> g.raised,
   asked |-> g.asked]

CommentGenerated(g, delivered, chat, clock, roll, roll2) ==
  [states |-> IF delivered
              THEN mark_commented(g.states, chat, clock, roll, roll2)
              ELSE g.states,
   profiles |-> IF /\ delivered
                   /\ g.comment.target_user_id # 0
                   /\ g.comment.comment_type = "roast"
                THEN record_roast(g.profiles, g.comment.target_user_id,
                                  g.comment.comment_type, clock)
                ELSE g.profiles,
   delivered |-> delivered,
   previous |-> g.states[chat].last_comment_time,
   comment |-> g.comment,
   raised |-> g.raised,
   asked |-> g.asked]

CommentSent(g, chat, clock, roll, sent, roll2) ==
  CommentGenerated(g, g.comment.ok /\ sent, chat, clock, roll, roll2)

CommentAndMark(states, profs, hist, cfg, chat, clock, roll, reply, sent, roll2) ==
  CommentSent(generate_comment(states, profs, hist, chat, roll, reply),
              chat, clock, roll, sent, roll2)

MarkRecord(chat, clock, r) ==
  IF r.delivered
  THEN [called |-> TRUE, chat |-> chat, clock |-> clock,
        previous |-> r.previous,
        messages_since_last_comment |->
          r.states[chat].messages_since_last_comment,
        last_comment_time |-> r.states[chat].last_comment_time]
  ELSE NoCall

\* The should_comment call as observed: its inputs, the state pre it read
\* and its result sc.
CallRecord(sc, pre, cfg, chat, clock, marked, draw) ==
  [called |-> TRUE, chat |-> chat, result |-> sc.result,
   outcome |-> sc.outcome,
   messages_since_last_comment |-> pre.messages_since_last_comment,
   last_comment_time |-> pre.last_comment_time,
   marked_at |-> marked,
   clock |-> clock,
   min_messages |-> cfg.min_messages_between_comments,
   max_messages |-> cfg.max_messages_between_comments,
   min_time |-> cfg.min_time_between_comments_seconds,
   comment_probability |-> cfg.comment_probability,
   draw |-> draw,
   threshold_before |-> pre.next_comment_threshold,
   threshold_after |->
     IF chat \in DOMAIN sc.states
     THEN sc.states[chat].next_comment_threshold
     ELSE pre.next_comment_threshold,
   state |-> pre,
   generated |-> NoComment,
   delivered |-> FALSE]

CommentDecided(sc, r, call, profs, cfg, chat, clock) ==
  IF sc.result /\ ~cfg.use_ai_decision
  THEN [states |-> r.states, profiles |-> r.profiles,
        call |-> [call EXCEPT !.generated = r.comment,
                              !.delivered = r.delivered],
        mark |-> MarkRecord(chat, clock, r), delivered |-> r.delivered]
  ELSE [states |-> sc.states, profiles |-> profs, call |-> call,
        mark |-> NoCall, delivered |-> FALSE]

CommentAfterDecision(sc, pre, profs, hist, cfg, chat, clock, marked, roll, draw, reply, sent, roll2) ==
  CommentDecided(sc,
                 CommentAndMark(sc.states, profs, hist, cfg, chat, clock,
                                roll, reply, sent, roll2),
                 CallRecord(sc, pre, cfg, chat, clock, marked, draw),
                 profs, cfg, chat, clock)

\* check_and_make_autonomous_comment; should_comment_ai_check is not a
\* method of AutonomousCommenter, so with use_ai_decision the call raises
\* AttributeError, which the handler catches and logs.
check_and_make_autonomous_comment(states, profs, hist, cfg, chat, clock, marked, roll, draw, reroll, reply, sent, roll2) ==
  CommentAfterDecision(should_comment(states, cfg, chat, clock, roll, draw,
                                      reroll),
                       get_chat_state(states, chat, roll)[chat],
                       profs, hist, cfg, chat, clock, marked, roll, draw,
                       reply, sent, roll2)

\* check_and_add_reaction: the reaction manager after the call and the
\* observed should_react / choose_reaction calls; reacted tells whether
\* set_message_reaction went through.
check_and_add_reaction(rm, chat, clock, text, draw, pick, reacted) ==
  LET sr == should_react(rm, chat, clock, draw)
      chosen == choose_reaction(text, pick)
  IN [manager |-> IF sr.result /\ reacted THEN mark_reacted(rm, chat, clock)
                  ELSE rm,
      op |-> [called |-> TRUE, op |-> "should_react", chat |-> chat,
              result |-> sr.result, outcome |-> sr.outcome,
              draw |-> draw, clock |-> clock,
              enabled |-> rm.config.reaction_enabled,
              add_own_reactions |-> rm.config.add_own_reactions,
              reaction_probability |-> rm.config.reaction_probability,
              min_time |-> rm.config.min_time_between_reactions_seconds,
              last_reaction_time |->
                IF chat \in DOMAIN rm.last_reaction_time
                THEN rm.last_reaction_time[chat] ELSE NoTime,
              text |-> text, pick |-> pick,
              reaction |-> IF sr.result THEN chosen.reaction ELSE "",
              reason |-> IF sr.result THEN chosen.reason ELSE ""]]

\* What the profile step of a handler leaves in the files and in the
\* observations.
ProfileStepDone(ps) ==
  /\ lastEnrich' = ps.enrich
  /\ lastHandled' = ps.handled
  /\ files' = ps.files
  /\ lastStore' = ps.store

\* What check_and_make_autonomous_comment leaves behind.
CommentStepDone(ac, chat) ==
  /\ chat_states' = ac.states
  /\ profiles' = ac.profiles
  /\ lastCall' = ac.call
  /\ lastMark' = ac.mark
  /\ marked_at' = IF ac.delivered THEN [marked_at EXCEPT ![chat] = now]
                  ELSE marked_at
  /\ commented_at' = IF ac.delivered
                     THEN [commented_at EXCEPT ![chat] = now]
                     ELSE commented_at

\* What check_and_add_reaction leaves behind.
ReactionStepDone(ar) ==
  /\ reaction_manager' = ar.manager
  /\ lastOp' = ar.op

\* handle_message for a text message of a user in a group chat that is not
\* a command and does not mention the bot.
HandleMessage(msg, resp, roll, draw, reroll, reply, sent, roll2, rdraw, pick, reacted) ==
  /\ handled < MaxMessages
  /\ ProfileStepDone(ProfileStep(profiles, history, config, msg, resp))
  /\ history' = history_add_message(history, msg)
  /\ IF config.enabled
     THEN CommentStepDone(
            check_and_make_autonomous_comment(
              add_message(chat_states, config, msg.chat, msg, roll),
              ProfileStep(profiles, history, config, msg, resp).profiles,
              history_add_message(history, msg), config, msg.chat, now,
              marked_at[msg.chat], roll, draw, reroll, reply, sent, roll2),
            msg.chat)
     ELSE /\ chat_states' = add_message(chat_states, config, msg.chat, msg,
                                        roll)
          /\ profiles' = ProfileStep(profiles, history, config, msg,
                                     resp).profiles
          /\ lastCall' = NoCall
          /\ lastMark' = NoCall
          /\ marked_at' = marked_at
          /\ commented_at' = commented_at
  /\ ReactionStepDone(check_and_add_reaction(reaction_manager, msg.chat, now,
                                             msg.text, rdraw, pick, reacted))
  /\ handled' = handled + 1
  /\ UNCHANGED <<tasks, config, now>>

\* handle_message for "/reload": handle_reload_command, which reloads only
\* for an administrator in a private chat.
HandleReloadCommand(msg, resp, roll, new_config) ==
  /\ handled < MaxMessages
  /\ ProfileStepDone(ProfileStep(profiles, history, config, msg, resp))
  /\ profiles' = ProfileStep(profiles, history, config, msg, resp).profiles
  /\ history' = history_add_message(history, msg)
  /\ chat_states' = IF IsPrivate(msg.chat) THEN chat_states
                    ELSE add_message(chat_states, config, msg.chat, msg, roll)
  /\ config' = IF IsPrivate(msg.chat) /\ msg.user \in AdminUserIds
               THEN new_config ELSE config
  /\ lastCall' = NoCall
  /\ lastMark' = NoCall
  /\ lastOp' = NoCall
  /\ handled' = handled + 1
  /\ UNCHANGED <<tasks, now, marked_at, commented_at, reaction_manager>>

\* Variant: the state of the chat is kept.
without_chat_kept(states, chat) == states

\* The chat states after handle_context_command dropped the target's state.
without_chat(states, chat) == [c \in DOMAIN states \ {chat} |-> states[c]]

\* The context-clear as observed: its target and the state it dropped.
ContextRecord(chat, st) ==
  [called |-> TRUE, op |-> "context_clear", chat |-> chat, cleared |-> st]

\* handle_message for "/context" in a group chat: handle_context_command
\* with the current chat as target.
HandleContextCommand(msg, resp, roll) ==
  /\ handled < MaxMessages
  /\ ProfileStepDone(ProfileStep(profiles, history, config, msg, resp))
  /\ profiles' = ProfileStep(profiles, history, config, msg, resp).profiles
  /\ history' = clear_chat_history(history_add_message(history, msg),
                                   msg.chat)
  /\ chat_states' = without_chat(add_message(chat_states, config, msg.chat,
                                             msg, roll),
                                 msg.chat)
  /\ lastCall' = NoCall
  /\ lastMark' = NoCall
  /\ lastOp' = ContextRecord(msg.chat,
                             add_message(chat_states, config, msg.chat, msg,
                                         roll)[msg.chat])
  /\ handled' = handled + 1
  /\ UNCHANGED <<tasks, config, now, marked_at, commented_at, reaction_manager>>

\* What the comment tail of handle_comment_command leaves behind.
\* The generate_comment call as observed: the reply the provider had for
\* it, whether it was asked, what came back and whether the call raised.
CommentRecord(chat, reply, r) ==
  [called |-> TRUE, op |-> "generate_comment", chat |-> chat,
   reply |-> reply, asked |-> r.asked, comment |-> r.comment,
   raised |-> r.raised]

CommentCommandDone(r, target, reply) ==
  /\ chat_states' = r.states
  /\ profiles' = r.profiles
  /\ lastOp' = CommentRecord(target, reply, r)
  /\ lastMark' = MarkRecord(target, now, r)
  /\ marked_at' = IF r.delivered THEN [marked_at EXCEPT ![target] = now]
                  ELSE marked_at

\* handle_message for "/comment <chat_id>" in the private chat:
\* handle_comment_command.
HandleCommentCommand(msg, target, resp, roll, reply, sent, roll2) ==
  /\ handled < MaxMessages
  /\ ProfileStepDone(ProfileStep(profiles, history, config, msg, resp))
  /\ history' = history_add_message(history, msg)
  /\ IF IsPrivate(msg.chat) /\ msg.user \in AdminUserIds
     THEN CommentCommandDone(
            CommentAndMark(chat_states,
                           ProfileStep(profiles, history, config, msg,
                                       resp).profiles,
                           history_add_message(history, msg), config, target,
                           now, roll, reply, sent, roll2),
            target, reply)
     ELSE /\ chat_states' = chat_states
          /\ lastOp' = NoCall
          /\ profiles' = ProfileStep(profiles, history, config, msg,
                                     resp).profiles
          /\ lastMark' = NoCall
          /\ marked_at' = marked_at
  /\ lastCall' = NoCall
  /\ handled' = handled + 1
  /\ UNCHANGED <<tasks, config, now, commented_at, reaction_manager>>

\* The wall clock advances between two updates.
Tick ==
  /\ now < MaxTime
  /\ now' = now + 1
  /\ lastCall' = NoCall
  /\ lastMark' = NoCall
  /\ lastEnrich' = NoCall
  /\ lastHandled' = NoCall
  /\ lastOp' = NoCall
  /\ lastStore' = NoCall
  /\ UNCHANGED <<tasks, config, handled, chat_states, profiles, history,
                 marked_at, commented_at,
                 files, reaction_manager>>

\* ---------------------------------------------------------- specification
\* The number of tracked reactions after which handle_message_reaction
\* saves the profile.
SavePeriod == 5

RECURSIVE TrackAll(_, _, _, _)
TrackAll(profs, user_id, emojis, text) ==
  IF emojis = <<>> THEN profs
  ELSE TrackAll(track_reaction(profs, user_id, Head(emojis), text),
                user_id, Tail(emojis), text)

\* handle_message_reaction: a user adds the reactions emojis to a message of
\* the chat; text is what forward_message gives for the target message ("" 
\* when it fails or the message has no text).
ReactionsTracked(tracked, user, chat, emojis, text) ==
  /\ profiles' = tracked
  /\ files' = IF tracked[user].reaction_patterns.total_reactions
                   % SavePeriod = 0
              THEN save_profile(files, tracked, user)
              ELSE files
  /\ lastStore' = [called |-> TRUE, op |-> "track_reaction",
                   user |-> user, chat |-> chat,
                   emojis |-> emojis, text |-> text,
                   clock |-> now,
                   source |-> load_source(profiles, user),
                   loaded |-> load_profile(profiles, user)[user],
                   after |-> tracked[user]]

HandleMessageReaction(user, chat, emojis, text) ==
  /\ handled < MaxMessages
  /\ user # 0 /\ user # Bot.id
  /\ IF config.profiling_enabled /\ emojis # <<>>
     THEN ReactionsTracked(TrackAll(profiles, user, emojis, text), user, chat,
                           emojis, text)
     ELSE /\ lastStore' = NoCall
          /\ UNCHANGED <<profiles, files>>
  /\ handled' = handled + 1
  /\ lastCall' = NoCall
  /\ lastMark' = NoCall
  /\ lastEnrich' = NoCall
  /\ lastHandled' = NoCall
  /\ lastOp' = NoCall
  /\ UNCHANGED <<tasks, config, now, chat_states, history, marked_at, commented_at,
                 reaction_manager>>

\* The observed get_group_mood call.
MoodObserved(store, chat_id) ==
  /\ lastOp' = [called |-> TRUE, op |-> "get_group_mood", chat |-> chat_id,
                store |-> store.kind, clock |-> now,
                recent |-> _get_recent_reactions(store, chat_id),
                mood |-> get_group_mood(store, chat_id)]
  /\ lastCall' = NoCall
  /\ lastMark' = NoCall
  /\ lastEnrich' = NoCall
  /\ lastHandled' = NoCall
  /\ lastStore' = NoCall
  /\ UNCHANGED <<tasks, config, now, chat_states, profiles, history,
                 marked_at, commented_at,
                 files, reaction_manager>>

\* /groupmood in a chat: get_group_mood of the module-level
\* reaction_analytics, whose store is the ProfileManager.
HandleGroupMoodCommand(chat_id) ==
  /\ handled < MaxMessages
  /\ handled' = handled + 1
  /\ MoodObserved([kind |-> "ProfileManager"], chat_id)

\* get_group_mood of a ReactionAnalytics object constructed with a store
\* that answers get_recent_chat_reactions with recent.
AnalyseMood(chat_id, recent) ==
  /\ handled < MaxMessages
  /\ handled' = handled + 1
  /\ MoodObserved([kind |-> "injected", recent |-> recent], chat_id)

\* ------------------------------------------------------ background tasks
\* post_init of main: the auto-save tasks that are created, and the one
\* task the global auto_save_task keeps for shutdown (tasks[0]).
post_init(cfg) ==
  [auto_save_profiles |-> IF cfg.profiling_enabled THEN "running" ELSE "none",
   auto_save_context |-> "running",
   auto_save_task |-> IF cfg.profiling_enabled THEN "auto_save_profiles"
                      ELSE "auto_save_context",
   app |-> "running"]

TaskNames == {"auto_save_profiles", "auto_save_context"}

\* Variant: an exception ends the loop.
loop_after_ended(status, raises) == IF raises THEN "done" ELSE status

\* One pass of "while True: try: ... except Exception": the task is where
\* it was, whether the body raised or not.
loop_after(status, raises) == status

\* task.cancel() of a task that is not done.
cancel(status) == IF status = "running" THEN "cancelled" ELSE status

\* The calls shutdown_handler makes, in order; each save is in a try of its
\* own, so that a save that raises does not end the handler.
shutdown_calls(t) ==
  <<"save_all_profiles", "save_all">>
    \o (IF t[t.auto_save_task] = "running" THEN <<"cancel">> ELSE <<>>)
    \o <<"stop_running", "exit">>

\* The tasks after shutdown_handler: auto_save_task is cancelled and the
\* application is told to stop.
shutdown_tasks(t) ==
  [t EXCEPT ![t.auto_save_task] = cancel(@), !.app = "stopped"]

\* One iteration of auto_save_profiles: the sleep, then save_all_profiles
\* when profiling is enabled; an exception is logged.
AutoSaveProfiles(raises) ==
  /\ tasks.app = "running"
  /\ tasks.auto_save_profiles = "running"
  /\ files' = IF ~raises /\ config.profiling_enabled
              THEN save_all_profiles(files, profiles) ELSE files
  /\ tasks' = [tasks EXCEPT !.auto_save_profiles = loop_after(@, raises)]
  /\ lastOp' = [called |-> TRUE, op |-> "auto_save",
                task |-> "auto_save_profiles", raised |-> raises]
  /\ lastCall' = NoCall
  /\ lastMark' = NoCall
  /\ lastEnrich' = NoCall
  /\ lastHandled' = NoCall
  /\ lastStore' = NoCall
  /\ UNCHANGED <<config, now, handled, chat_states, profiles, history,
                 marked_at, commented_at, reaction_manager>>

\* One iteration of auto_save_context: the sleep, save_all and
\* cleanup_expired (no stored message is old enough to expire within the
\* modelled time); an exception is logged.
AutoSaveContext(raises) ==
  /\ tasks.app = "running"
  /\ tasks.auto_save_context = "running"
  /\ tasks' = [tasks EXCEPT !.auto_save_context = loop_after(@, raises)]
  /\ lastOp' = [called |-> TRUE, op |-> "auto_save",
                task |-> "auto_save_context", raised |-> raises]
  /\ lastCall' = NoCall
  /\ lastMark' = NoCall
  /\ lastEnrich' = NoCall
  /\ lastHandled' = NoCall
  /\ lastStore' = NoCall
  /\ UNCHANGED <<config, now, handled, chat_states, profiles, history,
                 marked_at, commented_at, reaction_manager, files>>

\* shutdown_handler, on SIGINT or SIGTERM: the saves, the cancellation of
\* auto_save_task, app.stop_running() and sys.exit(0). profiles_fail: the
\* profile save raises.
ShutdownHandler(profiles_fail) ==
  /\ tasks.app = "running"
  /\ files' = IF profiles_fail THEN files
              ELSE save_all_profiles(files, profiles)
  /\ tasks' = shutdown_tasks(tasks)
  /\ lastOp' = [called |-> TRUE, op |-> "shutdown",
                profiles_failed |-> profiles_fail,
                calls |-> shutdown_calls(tasks),
                running_before |-> {n \in TaskNames : tasks[n] = "running"}]
  /\ lastCall' = NoCall
  /\ lastMark' = NoCall
  /\ lastEnrich' = NoCall
  /\ lastHandled' = NoCall
  /\ lastStore' = NoCall
  /\ UNCHANGED <<config, now, handled, chat_states, profiles, history,
                 marked_at, commented_at, reaction_manager>>

\* The process ends and is started again. A graceful shutdown runs
\* save_all_profiles (shutdown_handler); the new process starts with empty
\* caches and the profile files on disk. The message history comes back when
\* it was saved and has not expired (kept).
Restart(graceful, kept) ==
  /\ handled < MaxMessages
  /\ handled' = handled + 1
  /\ files' = IF graceful THEN save_all_profiles(files, profiles) ELSE files
  /\ profiles' = <<>>
  /\ chat_states' = <<>>
  /\ history' = IF kept THEN history ELSE <<>>
  /\ reaction_manager' = ReactionManager(config)
  /\ marked_at' = [c \in Chats |-> NoTime]
  /\ lastCall' = NoCall
  /\ lastMark' = NoCall
  /\ lastEnrich' = NoCall
  /\ lastHandled' = NoCall
  /\ lastOp' = NoCall
  /\ lastStore' = [called |-> TRUE, op |-> "restart", graceful |-> graceful]
  /\ tasks' = post_init(config)
  /\ UNCHANGED <<config, now, commented_at>>

InitFrom(configs, stored) ==
  /\ config \in configs
  /\ files \in stored
  /\ reaction_manager = ReactionManager(config)
  /\ lastOp = NoCall
  /\ lastStore = NoCall
  /\ now = 0
  /\ handled = 0
  /\ chat_states = <<>>
  /\ profiles = <<>>
  /\ history = <<>>
  /\ marked_at = [c \in Chats |-> NoTime]
  /\ commented_at = [c \in Chats |-> NoTime]
  /\ lastCall = NoCall
  /\ lastMark = NoCall
  /\ lastEnrich = NoCall
  /\ lastHandled = NoCall
  /\ tasks = post_init(config)

InitWith(configs) == InitFrom(configs, {<<>>})

\* The inputs of a handler are drawn only where its code consumes them: a
\* provider reply when the provider is called, a random value when the
\* random call is made; an input the run does not read is fixed.
EnrichInputsFrom(msg, responses) ==
  IF ProfileStep(profiles, history, config, msg, RespText).enrich.called
  THEN responses ELSE {RespText}

EnrichInputs(msg) == EnrichInputsFrom(msg, EnrichResponses)

RollInputs(cfg, used) ==
  IF used THEN RandomThreshold(cfg)
  ELSE {cfg.min_messages_between_comments}

DrawReached(states, cfg, chat) ==
  should_comment(states, cfg, chat, now, 0, 0, 0).outcome
    \in {"draw_failed", "bad_time", "ok"}

ReactionReached(chat) ==
  should_react(reaction_manager, chat, now, 0).outcome = "draw"

MessageArrivesWith(messages, responses) ==
  \E msg \in messages :
    \E resp \in EnrichInputsFrom(msg, responses),
       roll \in RollInputs(config, msg.chat \notin DOMAIN chat_states) :
      LET s1 == add_message(chat_states, config, msg.chat, msg, roll)
          reached == config.enabled /\ DrawReached(s1, config, msg.chat)
      IN \E draw \in IF reached THEN Draws ELSE {0} :
           LET sc == should_comment(s1, config, msg.chat, now, roll, draw,
                                    roll)
               generates == reached /\ sc.result /\ ~config.use_ai_decision
           IN \E reroll \in RollInputs(config,
                                       reached /\ sc.outcome = "draw_failed"),
                 reply \in IF generates THEN CommentReplies
                                     ELSE {ReplyError} :
                \E sent \in IF comment_result(reply).ok THEN BOOLEAN
                            ELSE {FALSE} :
                  \E roll2 \in RollInputs(config,
                                          comment_result(reply).ok /\ sent),
                     rdraw \in IF ReactionReached(msg.chat) THEN Draws
                               ELSE {0} :
                    LET reacts == should_react(reaction_manager, msg.chat,
                                               now, rdraw).result
                        random == choose_reaction(msg.text, "").reason
                                    = "random choice"
                    IN \E pick \in IF reacts /\ random
                                    THEN ReactionTypes ELSE {""},
                          reacted \in IF reacts THEN BOOLEAN ELSE {FALSE} :
                         HandleMessage(msg, resp, roll, draw, reroll, reply,
                                       sent, roll2, rdraw, pick, reacted)

MessageArrivesFrom(messages) ==
  MessageArrivesWith(messages, EnrichResponses)

MessageArrives == MessageArrivesFrom(PlainMessages)

ReloadArrivesWith(configs, chats) ==
  \E user \in AdminUserIds, chat \in chats :
    \E resp \in EnrichInputs(CommandMessage(chat, user, "/reload")),
       roll \in RollInputs(config, ~IsPrivate(chat)
                                   /\ chat \notin DOMAIN chat_states),
       new_config \in IF IsPrivate(chat) THEN configs ELSE {config} :
      HandleReloadCommand(CommandMessage(chat, user, "/reload"), resp, roll,
                          new_config)

ContextArrivesIn(chats) ==
  \E user \in AdminUserIds, chat \in chats :
    \E resp \in EnrichInputs(CommandMessage(chat, user, "/context")),
       roll \in RollInputs(config, chat \notin DOMAIN chat_states) :
      HandleContextCommand(CommandMessage(chat, user, "/context"), resp, roll)

ContextArrives == ContextArrivesIn(MainChats)

CommentArrivesAt(targets, replies, responses) ==
  \E user \in AdminUserIds, chat \in Chats \ GroupChats,
     target \in targets :
    \E resp \in EnrichInputsFrom(CommandMessage(chat, user, "/comment"),
                                 responses),
       roll \in RollInputs(config, target \notin DOMAIN chat_states),
       reply \in replies :
      \E sent \in IF comment_result(reply).ok THEN BOOLEAN ELSE {FALSE} :
        \E roll2 \in RollInputs(config, comment_result(reply).ok /\ sent) :
          HandleCommentCommand(CommandMessage(chat, user, "/comment"), target,
                               resp, roll, reply, sent, roll2)

CommentArrivesWith(replies, responses) ==
  CommentArrivesAt(MainChats, replies, responses)

CommentArrives == CommentArrivesWith(CommentReplies, EnrichResponses)

\* The bot deployed with commenting configurations.
Init == InitWith(EngineConfigs)

ReloadArrives == ReloadArrivesWith(EngineConfigs, Chats \ GroupChats)

Next ==
  \/ MessageArrives
  \/ ReloadArrives
  \/ ContextArrives
  \/ CommentArrives
  \/ Tick

Spec == Init /\ [][Next]_vars

\* The bot deployed with profiling configurations.
InitProfile == InitWith(ProfileConfigs)

ReloadProfile == ReloadArrivesWith(ProfileConfigs, Chats)

NextProfile ==
  \/ MessageArrives
  \/ ReloadProfile
  \/ ContextArrives

SpecProfile == InitProfile /\ [][NextProfile]_vars

\* The profile store in a deployment that restarts: the reactions users
\* add, Cyrillic and Latin messages, and a profile file that a crash left
\* truncated.
StoredFiles == {<<>>, (2 :> CorruptFile)}

InitStore == InitFrom({CfgP}, StoredFiles)

StoreMessages ==
  [chat : MainChats, user : Users, text : {"hello", "privet_cyr"},
   reply_to_bot : {FALSE}]

\* The reactions a user adds in one update and the text of the message
\* they are added to.
ReactionUpdates ==
  {[emojis |-> <<"thumbs_up">>, text |-> "why does this happen"],
   [emojis |-> <<"thinking", "custom:1">>, text |-> "funny news?"],
   [emojis |-> <<"thumbs_up", "thumbs_up">>, text |-> ""],
   [emojis |-> <<>>, text |-> "hello"]}

StoreMessageArrives == MessageArrivesFrom(StoreMessages)

ReactionArrives ==
  \E user \in Users, chat \in MainChats, r \in ReactionUpdates :
    HandleMessageReaction(user, chat, r.emojis, r.text)

ProcessRestarts == \E graceful \in BOOLEAN, kept \in BOOLEAN :
  Restart(graceful, kept)

NextStore ==
  \/ StoreMessageArrives
  \/ ReactionArrives
  \/ CommentArrives
  \/ ProcessRestarts

SpecStore == InitStore /\ [][NextStore]_vars

\* The bot deployed with reaction configurations, which /reload changes.
InitReaction == InitWith(ReactionConfigs)

ReactionMessages ==
  [chat : MainChats, user : {1}, text : {"hello", "WOW great"},
   reply_to_bot : {FALSE}]

ReactionMessageArrives == MessageArrivesFrom(ReactionMessages)

ReloadReaction == ReloadArrivesWith(ReactionConfigs, Chats \ GroupChats)

NextReaction ==
  \/ ReactionMessageArrives
  \/ ReloadReaction
  \/ Tick

SpecReaction == InitReaction /\ [][NextReaction]_vars

\* The bot reacting to messages that carry the keywords of the reaction
\* rules.
InitChoice == InitWith({CfgE})

ReactionTexts ==
  {"hello", "this is so funny lol", "haha wow", "WOW great", "nice fire",
   "amazing question", "think and look", "look exactly", "exactly right",
   "right"}

KeywordMessages ==
  [chat : MainChats, user : {1}, text : ReactionTexts,
   reply_to_bot : {FALSE}]

KeywordMessageArrives == MessageArrivesFrom(KeywordMessages)

NextChoice ==
  \/ KeywordMessageArrives
  \/ Tick

SpecChoice == InitChoice /\ [][NextChoice]_vars

\* The reaction analytics: reactions are tracked, /groupmood is asked, and
\* get_group_mood is applied to every short list of reactions a store can
\* hand out.
ReactionData ==
  {[user_id |-> 1, emoji |-> "~thumbs_up"],
   [user_id |-> 2, emoji |-> "~thumbs_down"],
   [user_id |-> 2, emoji |-> "thumbs_up"]}

RecentReactions == UNION {[1..n -> ReactionData] : n \in 0..MaxReactions}

InitMood == InitFrom({CfgP}, {<<>>})

GroupMoodArrives == \E chat \in MainChats : HandleGroupMoodCommand(chat)

MoodAnalysed ==
  \E chat \in MainChats, recent \in RecentReactions :
    AnalyseMood(chat, recent)

NextMood ==
  \/ ReactionArrives
  \/ GroupMoodArrives
  \/ MoodAnalysed
  \/ Tick

SpecMood == InitMood /\ [][NextMood]_vars

\* Comment generation: messages of the group with enrichment replies that
\* may hold a number, and /comment with the replies of the provider.
ProviderReplies ==
  {ReplyError,
   Reply(<<>>),
   Reply(<<"p">>),
   Reply(<<"{", "ok", "}">>),
   Reply(<<"p", "{", "ok", "}", "p">>),
   Reply(<<"{", "roast", "}">>),
   Reply(<<"{", "no", "}">>),
   Reply(<<"{", "empty", "}">>),
   Reply(<<"{", "}">>),
   Reply(<<"}", "{">>),
   Reply(<<"{", "ok">>),
   Reply(<<"{", "p", "}">>),
   Reply(<<"{", "no", "ok", "}">>),
   Reply(<<"{", "ok", "}", "p", "{", "no", "}">>)}

CommentResponses == {RespA, RespNumber}

InitComment == InitWith({CfgP})

CommentMessageArrives == MessageArrivesWith(PlainMessages, CommentResponses)

CommentReplyArrives == CommentArrivesWith(ProviderReplies, CommentResponses)

NextComment ==
  \/ CommentMessageArrives
  \/ CommentReplyArrives

SpecComment == InitComment /\ [][NextComment]_vars

\* The process with its background tasks, up to its shutdown: messages with
\* profiling on or off, /reload between these deployments, the iterations
\* of the two loops, and the signal.
ServiceConfigs == {CfgP, CfgR}

InitService == InitWith(ServiceConfigs)

ServiceMessageArrives ==
  /\ tasks.app = "running"
  /\ MessageArrivesWith(StoreMessages, {RespA})

ServiceReloadArrives ==
  /\ tasks.app = "running"
  /\ ReloadArrivesWith(ServiceConfigs, Chats \ GroupChats)

ProfilesLoopRuns == \E raises \in BOOLEAN : AutoSaveProfiles(raises)

ContextLoopRuns == \E raises \in BOOLEAN : AutoSaveContext(raises)

SignalArrives == \E profiles_fail \in BOOLEAN : ShutdownHandler(profiles_fail)

NextService ==
  \/ ServiceMessageArrives
  \/ ServiceReloadArrives
  \/ ProfilesLoopRuns
  \/ ContextLoopRuns
  \/ SignalArrives

SpecService == InitService /\ [][NextService]_vars

\* Two groups served by one bot that comments and reacts.
CfgK == [CfgA EXCEPT !.max_messages_between_comments = 1,
                     !.use_intelligent_decision = FALSE,
                     !.reaction_enabled = TRUE]

InitChats == InitWith({CfgK})

ChatsMessages ==
  [chat : GroupChats, user : {1}, text : {"hello"}, reply_to_bot : {FALSE}]

ChatsMessageArrives ==
  /\ handled < MaxChatsMessages
  /\ MessageArrivesWith(ChatsMessages, {RespText})

ChatsContextArrives ==
  /\ handled < MaxChatsMessages
  /\ ContextArrivesIn(GroupChats)

NextChats ==
  \/ ChatsMessageArrives
  \/ ChatsContextArrives
  \/ Tick

SpecChats == InitChats /\ [][NextChats]_vars

\* A group that keeps talking: the messages of one user keep arriving, the
\* history of the chat is full, and the deployment leaves use_ai_decision at
\* its default, true.
CfgL == [CfgA EXCEPT !.use_ai_decision = TRUE]

CfgM == [CfgB EXCEPT !.use_ai_decision = TRUE]

LiveConfigs == {CfgL, CfgM}

LiveMessage ==
  [chat |-> 1, user |-> 1, text |-> "hello", reply_to_bot |-> FALSE]

FullHistory == (1 :> [i \in 1..MaxHistory |-> [user |-> 1, text |-> "hello"]])

InitLive ==
  /\ config \in LiveConfigs
  /\ files = <<>>
  /\ reaction_manager = ReactionManager(config)
  /\ lastOp = NoCall
  /\ lastStore = NoCall
  /\ now = 0
  /\ handled = 0
  /\ chat_states = <<>>
  /\ profiles = <<>>
  /\ history = FullHistory
  /\ marked_at = [c \in Chats |-> NoTime]
  /\ commented_at = [c \in Chats |-> NoTime]
  /\ lastCall = NoCall
  /\ lastMark = NoCall
  /\ lastEnrich = NoCall
  /\ lastHandled = NoCall
  /\ tasks = post_init(config)

\* The count of messages of the chat is below the cap of the model.
BelowCap ==
  IF 1 \in DOMAIN chat_states
  THEN chat_states[1].messages_since_last_comment < MaxMessages
  ELSE TRUE

\* A message arrives whose draw passes, for which the provider has a valid
\* comment and whose send_message goes through.
GoodMessageArrives ==
  \E roll \in RollInputs(config, 1 \notin DOMAIN chat_states),
     draw \in {d \in Draws : d <= probability_used(config)},
     roll2 \in RandomThreshold(config) :
    /\ HandleMessage(LiveMessage, RespText, roll, draw, roll,
                     Reply(<<"{", "ok", "}">>), TRUE, roll2, 0, "", FALSE)
    /\ IF BelowCap THEN TRUE ELSE lastCall'.delivered

\* A message arrives, with any draw, reply and outcome of the send.
LiveMessageArrives ==
  /\ BelowCap
  /\ MessageArrivesWith({LiveMessage}, {RespText})

\* The count of handled updates of the model starts again.
NewRun ==
  /\ handled = MaxMessages
  /\ handled' = 0
  /\ UNCHANGED <<config, now, chat_states, profiles, history, marked_at,
                 commented_at, lastCall, lastMark, lastEnrich, lastHandled,
                 files, reaction_manager, lastOp, lastStore, tasks>>

\* The deployment is restarted gracefully and finds its history again.
LiveRestart == Restart(TRUE, TRUE)

NextLive ==
  \/ GoodMessageArrives
  \/ LiveMessageArrives
  \/ LiveRestart
  \/ NewRun
  \/ Tick

\* Messages keep arriving, the draw succeeds and the provider answers again
\* and again, the clock advances and the deployment is restarted now and
\* then.
SpecLive ==
  /\ InitLive
  /\ [][NextLive]_vars
  /\ SF_vars(GoodMessageArrives)
  /\ WF_vars(LiveRestart)
  /\ WF_vars(NewRun)
  /\ WF_vars(Tick)

\* ------------------------------------------------------------ properties
\* C1: the threshold of every chat state lies within [min, max] of the
\* configuration in force.
C1_ThresholdWithinConfig ==
  \A c \in DOMAIN chat_states :
    /\ chat_states[c].next_comment_threshold
         >= config.min_messages_between_comments
    /\ chat_states[c].next_comment_threshold
         <= config.max_messages_between_comments

\* C2: should_comment returns false whenever the counter of the chat is
\* below the configured minimum.
C2_FloorBlocks ==
  (lastCall.called
   /\ lastCall.messages_since_last_comment < lastCall.min_messages)
    => ~lastCall.result

\* A call that only the minimum blocks: threshold reached, no cooling period.
C2_Witness ==
  /\ lastCall.called
  /\ lastCall.outcome = "floor"
  /\ lastCall.messages_since_last_comment >= lastCall.threshold_before
  /\ \/ lastCall.last_comment_time = NoTime
     \/ lastCall.clock - lastCall.last_comment_time >= lastCall.min_time

\* C3: after mark_commented at time t, every should_comment call of that chat
\* before t + min_time returns false.
C3_CooldownAfterMark ==
  (lastCall.called
   /\ lastCall.marked_at # NoTime
   /\ lastCall.clock - lastCall.marked_at < lastCall.min_time)
    => ~lastCall.result

\* C3 (amended): after mark_commented at time t, every should_comment call of
\* that chat before t + min_time returns false, as long as the chat state
\* that recorded t has not been discarded (by /context) in between.
C3_CooldownWhileStateKept ==
  (lastCall.called
   /\ lastCall.marked_at # NoTime
   /\ lastCall.last_comment_time = lastCall.marked_at
   /\ lastCall.clock - lastCall.marked_at < lastCall.min_time)
    => ~lastCall.result

\* A call in the cooling period whose counter has reached the threshold.
C3_Witness ==
  /\ lastCall.called
  /\ lastCall.outcome = "cooldown"
  /\ lastCall.last_comment_time = lastCall.marked_at
  /\ lastCall.messages_since_last_comment >= lastCall.threshold_before

\* C4: immediately after mark_commented the counter is 0 and
\* last_comment_time is strictly later than its value before the call.
C4_MarkStrictlyAdvances ==
  lastMark.called =>
    /\ lastMark.messages_since_last_comment = 0
    /\ lastMark.last_comment_time > lastMark.previous

\* C4 (amended): immediately after mark_commented the counter is 0 and
\* last_comment_time is the clock reading of the call, which is not earlier
\* than the previous comment time (and may be equal to it).
C4_MarkResetsAndStamps ==
  lastMark.called =>
    /\ lastMark.messages_since_last_comment = 0
    /\ lastMark.last_comment_time = lastMark.clock
    /\ lastMark.last_comment_time >= lastMark.previous

\* A second mark of a chat, later than the first.
C4_Witness ==
  /\ lastMark.called
  /\ lastMark.previous # NoTime
  /\ lastMark.last_comment_time > lastMark.previous

\* Mood factor of the comment probability, in tenths.
MoodFactor(mood) ==
  IF mood = "Very Positive" THEN 12
  ELSE IF mood = "Negative" THEN 7
  ELSE IF mood = "Mixed" THEN 9
  ELSE 10

\* C5: whatever the mood of the group, the draw of should_comment is
\* compared with the base probability times the mood factor (1.2 Very
\* Positive, 0.7 Negative, 0.9 Mixed, 1.0 otherwise): the draw fails exactly
\* when it exceeds that product.
C5_MoodAdjustedDraw ==
  \A mood \in Moods :
    (lastCall.called
     /\ lastCall.outcome \in {"draw_failed", "bad_time", "ok"})
      => ((lastCall.outcome = "draw_failed")
            <=> (lastCall.draw * 10
                   > lastCall.comment_probability * MoodFactor(mood)))

\* C6: when the draw of should_comment fails, the call returns false and the
\* threshold of the chat is re-rolled within [min, max].
C6_FailedDrawRerolls ==
  (lastCall.called /\ lastCall.outcome = "draw_failed")
    => /\ ~lastCall.result
       /\ lastCall.threshold_after >= lastCall.min_messages
       /\ lastCall.threshold_after <= lastCall.max_messages

\* A failed draw whose re-roll changed the threshold.
C6_Witness ==
  /\ lastCall.called
  /\ lastCall.outcome = "draw_failed"
  /\ lastCall.threshold_after # lastCall.threshold_before

\* The list fields of a profile: key of the analysis, field of the profile,
\* stated bound, position in the merge.
ListFields ==
  {[key |-> "interests", field |-> "interests", cap |-> 10, ord |-> 1],
   [key |-> "technical_weaknesses", field |-> "technical", cap |-> 5,
    ord |-> 2],
   [key |-> "personal_weaknesses", field |-> "personal", cap |-> 5,
    ord |-> 3],
   [key |-> "common_mistakes", field |-> "common_mistakes", cap |-> 5,
    ord |-> 4],
   [key |-> "embarrassing_moments", field |-> "embarrassing_moments",
    cap |-> 5, ord |-> 5]}

\* The items of a reply that are appended: non-empty, not yet in the list,
\* first occurrence within the reply; in the order of the reply.
FreshItems(lst, items) ==
  LET idx == {i \in 1..Len(items) :
                /\ items[i] # 0
                /\ ~Contains(lst, items[i])
                /\ \A j \in 1..(i - 1) : items[j] # items[i]}
      Nth(k) == CHOOSE i \in idx : Cardinality({j \in idx : j < i}) = k - 1
  IN [k \in 1..Cardinality(idx) |-> items[Nth(k)]]

\* The cap most recently appended entries of a list.
MostRecent(all, cap) ==
  LET n == Min(Len(all), cap)
  IN [k \in 1..n |-> all[Len(all) - n + k]]

\* The merge of a list field was carried out by the latest enrichment.
Merged(f) ==
  /\ lastEnrich.called
  /\ lastEnrich.resp.kind = "json"
  /\ lastEnrich.resp[f.key].kind = "list"
  /\ \A g \in ListFields :
       g.ord < f.ord => lastEnrich.resp[g.key].kind # "bad"

\* C7: after any number of enrichments the weakness, mistake and moment
\* lists hold at most 5 entries and interests at most 10, and what is
\* retained is what was appended most recently.
C7_BoundedLists ==
  /\ \A u \in DOMAIN profiles :
       \A f \in ListFields : Len(profiles[u][f.field]) <= f.cap
  /\ \A f \in ListFields :
       Merged(f) =>
         lastEnrich.after[f.field]
           = MostRecent(lastEnrich.before[f.field]
                          \o FreshItems(lastEnrich.before[f.field],
                                        lastEnrich.resp[f.key].items),
                        f.cap)

\* An enrichment that drops the oldest entries of a list.
C7_Witness ==
  \E f \in ListFields :
    /\ Merged(f)
    /\ Len(lastEnrich.before[f.field])
         + Len(FreshItems(lastEnrich.before[f.field],
                          lastEnrich.resp[f.key].items)) > f.cap
    /\ lastEnrich.before[f.field] # <<>>

\* A reply that is not the expected JSON: not JSON at all, or a JSON object
\* with a list field that is not a list.
Malformed(resp) ==
  \/ resp.kind = "text"
  \/ /\ resp.kind = "json"
     /\ \E f \in ListFields : resp[f.key].kind = "bad"

\* C8: a malformed reply leaves the profile exactly as it was before the
\* enrichment call.
C8_MalformedLeavesProfile ==
  (lastEnrich.called /\ Malformed(lastEnrich.resp))
    => lastEnrich.after = lastEnrich.before

\* C9: enrich_profile_with_ai does not raise when the provider raises or the
\* reply cannot be parsed, and the profile is unchanged.
C9_EnrichNeverRaises ==
  (lastEnrich.called /\ lastEnrich.resp.kind \in {"error", "text"})
    => /\ ~lastEnrich.raised
       /\ lastEnrich.after = lastEnrich.before

\* C10: a message that brings message_count to a multiple of the enrichment
\* interval makes exactly one enrichment call; any other message makes none.
C10_OneCallAtMultiple ==
  lastHandled.called =>
    lastHandled.enrich_calls
      = IF lastHandled.message_count % lastHandled.interval = 0
        THEN 1 ELSE 0

\* Among the latest count messages of the user stored for the chat before
\* the update, one has a text that is not a command.
HadUsableText(h) ==
  /\ h.chat \in DOMAIN h.history
  /\ LET stored == h.history[h.chat]
         own == {i \in 1..Len(stored) : stored[i].user = h.user}
         recent == {i \in own : Cardinality({j \in own : j > i}) < h.count}
     IN \E i \in recent : ~IsCommand(stored[i].text)

\* C10 (amended): a message that brings message_count to a multiple of the
\* enrichment interval makes exactly one enrichment call if the history of
\* the chat already holds a usable text among the user's latest messages,
\* and none if it does not; any other message makes none.
C10_OneCallAtMultipleWithText ==
  lastHandled.called =>
    lastHandled.enrich_calls
      = IF /\ lastHandled.message_count % lastHandled.interval = 0
           /\ HadUsableText(lastHandled)
        THEN 1 ELSE 0

\* A message at a multiple of the interval that triggers the enrichment.
C10_Witness ==
  /\ lastHandled.called
  /\ lastHandled.message_count % lastHandled.interval = 0
  /\ lastHandled.message_count > lastHandled.interval
  /\ lastHandled.enrich_calls = 1

\* C11: for every profile the store holds, saving it, clearing the cache and
\* loading the same user again gives a profile equal to the saved one in
\* every field, nested records and maps included.
C11_SaveLoadRoundTrip ==
  \A u \in DOMAIN profiles :
    read_profile_file(save_profile(files, profiles, u), u) = profiles[u]

\* A profile with reaction counters was loaded from its file after a
\* restart.
C11_Witness ==
  /\ lastStore.called
  /\ lastStore.op = "track_reaction"
  /\ lastStore.source = "file"
  /\ lastStore.loaded.reaction_patterns.favorite_reactions # <<>>
  /\ lastStore.loaded.reaction_patterns.reaction_targets # <<>>

\* C12: load_profile does not raise and gives a profile of the requested
\* user: the cached one if there is one, else the one read from the file,
\* else (no file, or a file that cannot be read) the defaults with that
\* user_id; the profile is cached, so a later load gives the same one.
C12_LoadAlwaysReturns ==
  \A u \in Users :
    /\ u \in DOMAIN load_profile(profiles, u)
    /\ load_profile(profiles, u)[u].user_id = u
    /\ \A v \in DOMAIN profiles : load_profile(profiles, u)[v] = profiles[v]
    /\ u \notin DOMAIN profiles =>
         load_profile(profiles, u)[u]
           = IF u \in DOMAIN files /\ files[u] # CorruptFile
             THEN from_dict(json_load(files[u]))
             ELSE UserProfile(u)
    /\ load_profile(load_profile(profiles, u), u) = load_profile(profiles, u)

\* An operation loaded the profile of a user whose file cannot be read and
\* went on with the defaults.
C12_Witness ==
  /\ lastStore.called
  /\ lastStore.op \in {"update_profile_from_message", "track_reaction"}
  /\ lastStore.source = "unreadable"
  /\ lastStore.loaded = UserProfile(lastStore.user)
  /\ lastStore.user \in DOMAIN profiles

\* C13: after update_profile_from_message for a message with text the
\* language preference is "ru" if the text has a Cyrillic character and
\* "en" otherwise, whatever it was before.
C13_LanguageFollowsText ==
  (/\ lastStore.called
   /\ lastStore.op = "update_profile_from_message"
   /\ lastStore.text # "")
    => lastStore.after.language_preference
         = IF HasCyrillic(lastStore.text) THEN "ru" ELSE "en"

\* C13 as the code has it: a text with a Cyrillic character sets "ru"; any
\* other text leaves the preference as it was, except that an empty
\* preference becomes "en".
C13_LanguageKeptWithoutCyrillic ==
  (/\ lastStore.called
   /\ lastStore.op = "update_profile_from_message"
   /\ lastStore.text # "")
    => /\ HasCyrillic(lastStore.text)
            => lastStore.after.language_preference = "ru"
       /\ (~HasCyrillic(lastStore.text)
           /\ lastStore.loaded.language_preference # "")
            => lastStore.after.language_preference
                 = lastStore.loaded.language_preference
       /\ (~HasCyrillic(lastStore.text)
           /\ lastStore.loaded.language_preference = "")
            => lastStore.after.language_preference = "en"

\* A Latin message of a user whose preference was "ru".
C13_Witness ==
  /\ lastStore.called
  /\ lastStore.op = "update_profile_from_message"
  /\ lastStore.text = "hello"
  /\ lastStore.loaded.language_preference = "ru"
  /\ lastStore.after.language_preference = "ru"

\* C14: while the process runs, no operation of the store lowers the
\* message_count, total_reactions or successful_roasts of a profile, and
\* update_profile_from_message raises message_count by exactly one.
RestartStep == lastStore'.called /\ lastStore'.op = "restart"

UpdateStep ==
  lastStore'.called /\ lastStore'.op = "update_profile_from_message"

C14_CountersNeverDecrease ==
  [][/\ ~RestartStep =>
         \A u \in DOMAIN profiles :
           /\ u \in DOMAIN profiles'
           /\ profiles'[u].message_count >= profiles[u].message_count
           /\ profiles'[u].reaction_patterns.total_reactions
                >= profiles[u].reaction_patterns.total_reactions
           /\ profiles'[u].successful_roasts >= profiles[u].successful_roasts
     /\ UpdateStep =>
         /\ lastStore'.user \in DOMAIN profiles'
         /\ profiles'[lastStore'.user].message_count
              = lastStore'.loaded.message_count + 1
         /\ \A u \in DOMAIN profiles \ {lastStore'.user} :
              profiles'[u].message_count = profiles[u].message_count]_vars

\* A message of a user whose cached profile already has a message, a
\* reaction and a roast counted.
C14_Witness ==
  /\ lastStore.called
  /\ lastStore.op = "update_profile_from_message"
  /\ lastStore.source = "cache"
  /\ lastStore.loaded.message_count >= 1
  /\ lastStore.after.message_count = lastStore.loaded.message_count + 1
  /\ \E u \in DOMAIN profiles :
       profiles[u].reaction_patterns.total_reactions >= 1

\* C15: a thumbs-up on "why does this happen" raises favorite_reactions of
\* thumbs-up and emotional_responses["positive"] by one and adds "questions"
\* to reaction_targets.
CountOf(counts, key) == IF key \in DOMAIN counts THEN counts[key] ELSE 0

C15_ThumbsUpOnQuestion ==
  (/\ lastStore.called
   /\ lastStore.op = "track_reaction"
   /\ lastStore.emojis = <<"thumbs_up">>
   /\ lastStore.text = "why does this happen")
    => /\ CountOf(lastStore.after.reaction_patterns.favorite_reactions,
                  "thumbs_up")
            = CountOf(lastStore.loaded.reaction_patterns.favorite_reactions,
                      "thumbs_up") + 1
       /\ CountOf(lastStore.after.reaction_patterns.emotional_responses,
                  "positive")
            = CountOf(lastStore.loaded.reaction_patterns.emotional_responses,
                      "positive") + 1
       /\ Contains(lastStore.after.reaction_patterns.reaction_targets,
                   "questions")

\* C16: get_group_mood gives percentages that sum to 100 within rounding
\* when there is at least one recent reaction, and the "Unknown" result with
\* zero percentages, zero active users and zero reactions when there is
\* none. Percentages are in tenths; three roundings to a tenth leave the
\* sum within one tenth of 100.
C16_PercentagesSumTo100 ==
  (lastOp.called /\ lastOp.op = "get_group_mood")
    => IF Len(lastOp.recent) >= 1
       THEN /\ lastOp.mood.positive_percentage
                + lastOp.mood.negative_percentage
                + lastOp.mood.neutral_percentage \in 999..1001
            /\ lastOp.mood.recent_reactions = Len(lastOp.recent)
            /\ lastOp.mood.overall_mood \in Moods
       ELSE /\ lastOp.mood.overall_mood = "Unknown"
            /\ lastOp.mood.positive_percentage = 0
            /\ lastOp.mood.negative_percentage = 0
            /\ lastOp.mood.neutral_percentage = 0
            /\ lastOp.mood.active_users = 0
            /\ lastOp.mood.recent_reactions = 0

\* Three reactions of three different classes: 33.3 + 33.3 + 33.3.
C16_Witness ==
  /\ lastOp.called
  /\ lastOp.op = "get_group_mood"
  /\ Len(lastOp.recent) = 3
  /\ lastOp.mood.positive_percentage = 333
  /\ lastOp.mood.negative_percentage = 333
  /\ lastOp.mood.neutral_percentage = 333

\* C17: a reaction a user added in the chat and that track_reaction
\* recorded is counted by the group mood of that chat while it is inside
\* the look-back window: at least one recent reaction, the user among the
\* active users, a mood other than "Unknown".
C17_TrackedReactionReachesMood ==
  (/\ lastOp.called
   /\ lastOp.op = "get_group_mood"
   /\ lastOp.store = "ProfileManager"
   /\ lastOp.clock < LookBackSeconds
   /\ \E u \in DOMAIN profiles :
        profiles[u].reaction_patterns.total_reactions >= 1)
    => /\ lastOp.mood.recent_reactions >= 1
       /\ lastOp.mood.active_users >= 1
       /\ lastOp.mood.overall_mood # "Unknown"

\* C18: should_react is false whenever the reaction feature is disabled,
\* false less than min_time_between_reactions_seconds after the last
\* mark_reacted of the chat whatever the draw, and otherwise true exactly
\* when the draw is below reaction_probability; the settings are those of
\* the configuration in force.
C18_ShouldReactGates ==
  (lastOp.called /\ lastOp.op = "should_react")
    => /\ ~config.reaction_enabled => ~lastOp.result
       /\ (/\ lastOp.last_reaction_time # NoTime
           /\ lastOp.clock - lastOp.last_reaction_time
                < config.min_time_between_reactions_seconds)
            => ~lastOp.result
       /\ (/\ config.reaction_enabled
           /\ ~(/\ lastOp.last_reaction_time # NoTime
                /\ lastOp.clock - lastOp.last_reaction_time
                     < config.min_time_between_reactions_seconds))
            => (lastOp.result
                  <=> lastOp.draw < config.reaction_probability)

\* C18, first part alone: no reaction while the configuration in force has
\* the reaction system disabled.
C18_DisabledNeverReacts ==
  (lastOp.called /\ lastOp.op = "should_react" /\ ~config.reaction_enabled)
    => ~lastOp.result

\* C19: choose_reaction gives the emoji of the first rule, in the order of
\* the rules, that has a keyword in the lower-cased text, whatever the
\* random pick would be; only when no rule has one is the result the pick
\* from the configured reaction types.
MatchingRules(text) ==
  {n \in 1..Len(ReactionRules) :
     \E i \in 1..Len(TextTokens[text]) :
       Lower(TextTokens[text][i]) \in ReactionRules[n].words}

C19_RuleOrder ==
  [n \in 1..7 |-> ReactionRules[n].reason]
    = <<"humor detected", "surprise detected", "positive sentiment",
        "enthusiasm detected", "question/thinking", "attention keyword",
        "agreement">>

ParsesAsComment(reply) ==
  /\ reply.kind = "text"
  /\ \E a, b \in 1..Len(reply.parts) :
       /\ reply.parts[a] = "{"
       /\ \A j \in 1..(a - 1) : reply.parts[j] # "{"
       /\ reply.parts[b] = "}"
       /\ \A j \in (b + 1)..Len(reply.parts) : reply.parts[j] # "}"
       /\ a < b
       /\ json_loads(SubSeq(reply.parts, a, b)).ok
       /\ accepts(json_loads(SubSeq(reply.parts, a, b)).data)

\* C20: generate_comment returns a comment only when the provider was asked
\* and the part of its reply from the first "{" to the last "}" parses as
\* JSON with a truthy should_comment and a comment that is not empty; in
\* every other case it returns None, and it never raises.
C20_CommentOnlyWhenParsed ==
  (lastOp.called /\ lastOp.op = "generate_comment")
    => /\ ~lastOp.raised
       /\ lastOp.comment.ok
            => (lastOp.asked /\ ParsesAsComment(lastOp.reply))

\* C20 without the claim that the call never raises: what comes back when
\* the call returns.
C20_ReturnedOnlyWhenParsed ==
  (lastOp.called /\ lastOp.op = "generate_comment" /\ ~lastOp.raised)
    => (lastOp.comment.ok
          <=> (lastOp.asked /\ ParsesAsComment(lastOp.reply)))

\* A step that creates the engagement state of chat c leaves what a fresh
\* state shows after the operations of that one update: at most the one
\* message counted and kept, a comment time that is absent or of this very
\* update, and a threshold within the bounds of the configuration.
CreatedFresh(c) ==
  (c \notin DOMAIN chat_states /\ c \in DOMAIN chat_states')
    => /\ chat_states'[c].messages_since_last_comment <= 1
       /\ Len(chat_states'[c].recent_messages) <= 1
       /\ chat_states'[c].last_comment_time \in {NoTime, now}
       /\ chat_states'[c].next_comment_threshold \in RandomThreshold(config)

\* A step that discards the engagement state of chat c is a context-clear
\* of c.
DiscardedByClear(c) ==
  (c \in DOMAIN chat_states /\ c \notin DOMAIN chat_states')
    => (lastOp'.called /\ lastOp'.op = "context_clear" /\ lastOp'.chat = c)

\* C21: after a context-clear of a chat the chat has no engagement state, so
\* that the next access creates a fresh one (counter 0, empty window, no
\* comment time, threshold rolled within the bounds); and no other step
\* discards the state of a chat.
C21_ContextClearResets ==
  /\ [](lastOp.called /\ lastOp.op = "context_clear"
          => lastOp.chat \notin DOMAIN chat_states)
  /\ [][\A c \in Chats : CreatedFresh(c) /\ DiscardedByClear(c)]_vars

\* A context-clear dropped a state that had counted messages, and the chat
\* has none now.
C21_Witness ==
  /\ lastOp.called
  /\ lastOp.op = "context_clear"
  /\ lastOp.cleared.messages_since_last_comment > 1
  /\ lastOp.chat \notin DOMAIN chat_states

\* The position of a call among the calls of the shutdown, 0 when it was
\* not made.
CallAt(calls, name) ==
  IF \E i \in 1..Len(calls) : calls[i] = name
  THEN CHOOSE i \in 1..Len(calls) : calls[i] = name
  ELSE 0

\* C22: on shutdown every cached profile and the context history are saved
\* and every background task that was running is cancelled, before the
\* application stops; a profile save that fails does not keep the context
\* history from being saved.
C22_ShutdownSavesAndCancels ==
  (lastOp.called /\ lastOp.op = "shutdown")
    => /\ ~lastOp.profiles_failed
            => files = save_all_profiles(files, profiles)
       /\ CallAt(lastOp.calls, "save_all") # 0
       /\ CallAt(lastOp.calls, "save_all_profiles")
            < CallAt(lastOp.calls, "stop_running")
       /\ CallAt(lastOp.calls, "save_all")
            < CallAt(lastOp.calls, "stop_running")
       /\ \A n \in lastOp.running_before : tasks[n] = "cancelled"

\* C22 without the cancellation of every task: the saves, their order and
\* the cancellation of the task that was kept for shutdown.
C22_ShutdownSaves ==
  (lastOp.called /\ lastOp.op = "shutdown")
    => /\ ~lastOp.profiles_failed
            => files = save_all_profiles(files, profiles)
       /\ CallAt(lastOp.calls, "save_all") # 0
       /\ CallAt(lastOp.calls, "save_all")
            < CallAt(lastOp.calls, "stop_running")
       /\ tasks[tasks.auto_save_task] # "running"

\* C28: an iteration of an auto-save loop that raises leaves the loop
\* running, and a loop stops running only by the cancellation of its task.
C28_LoopsSurviveExceptions ==
  /\ [](lastOp.called /\ lastOp.op = "auto_save"
          => tasks[lastOp.task] = "running")
  /\ [][\A n \in TaskNames :
          (tasks[n] = "running" /\ tasks'[n] # "running")
            => (tasks'[n] = "cancelled" /\ lastOp'.op = "shutdown")]_vars

\* An iteration of the profile loop raised after profiles had been cached,
\* and the loop is still running.
C28_Witness ==
  /\ lastOp.called
  /\ lastOp.op = "auto_save"
  /\ lastOp.raised
  /\ lastOp.task = "auto_save_profiles"
  /\ tasks.auto_save_profiles = "running"
  /\ DOMAIN profiles # {}

\* ------------------------------------------------------------------- C23
RoastOf(p) ==
  [successful_roasts |-> p.successful_roasts, topics_hit |-> p.topics_hit,
   last_roasted |-> p.last_roasted]

\* The roast history of user u after a roast of topic "roast" at clock.
RoastRecorded(r, clock) ==
  [successful_roasts |-> r.successful_roasts + 1,
   topics_hit |-> IF Contains(r.topics_hit, "roast") THEN r.topics_hit
                  ELSE Append(r.topics_hit, "roast"),
   last_roasted |-> clock]

\* The autonomous pipeline delivered a roast aimed at user u in this step.
RoastDelivered(u) ==
  /\ lastCall'.delivered
  /\ lastCall'.generated.comment_type = "roast"
  /\ lastCall'.generated.target_user_id = u

\* The steps of the pipeline came in the order of the handler.
PipelineInOrder ==
  /\ lastCall'.generated.ok => lastCall'.result
  /\ lastCall'.delivered => lastCall'.generated.ok
  /\ lastMark'.called <=> lastCall'.delivered
  /\ lastCall'.delivered =>
       /\ chat_states'[lastCall'.chat].messages_since_last_comment = 0
       /\ chat_states'[lastCall'.chat].last_comment_time = lastCall'.clock
  /\ ~lastCall'.delivered =>
       chat_states'[lastCall'.chat] =
         [lastCall'.state EXCEPT
            !.next_comment_threshold = lastCall'.threshold_after]
  /\ lastCall'.result /\ ~lastCall'.delivered =>
       chat_states'[lastCall'.chat] = lastCall'.state
  /\ \A u \in DOMAIN profiles' :
       RoastOf(profiles'[u]) =
         IF RoastDelivered(u)
         THEN RoastRecorded(RoastOf(load_profile(profiles, u)[u]),
                            lastCall'.clock)
         ELSE RoastOf(load_profile(profiles, u)[u])

\* C23: in the autonomous-comment pipeline should_comment comes first, then
\* the generation, the delivery, mark_commented and record_roast: the state of
\* the chat is reset exactly when a comment was delivered, a roast is recorded
\* exactly when the delivered comment is a roast with a target user, and when
\* the generation gives nothing or the delivery fails the state of the chat
\* and every roast history stay as they were.
C23_PipelineOrder == [][lastCall'.called => PipelineInOrder]_vars

\* A roast was delivered: the chat was marked and the roast recorded.
C23_Witness ==
  /\ lastCall.called /\ lastCall.delivered /\ lastMark.called
  /\ lastCall.generated.comment_type = "roast"
  /\ lastCall.generated.target_user_id \in DOMAIN profiles
  /\ profiles[lastCall.generated.target_user_id].successful_roasts > 0

\* The delivery of a generated comment failed.
C23_WitnessFailed ==
  /\ lastCall.called /\ lastCall.result /\ lastCall.generated.ok
  /\ ~lastCall.delivered /\ ~lastMark.called

\* ------------------------------------------------------------------- C24
\* An autonomous comment is delivered to chat c in this step, and one was
\* delivered to it before.
SecondComment(c) ==
  /\ lastCall'.called /\ lastCall'.chat = c /\ lastCall'.delivered
  /\ commented_at[c] # NoTime

\* C24: two autonomous comments of one chat are never delivered less than
\* min_time_between_comments_seconds apart.
C24_CommentsApart ==
  [][\A c \in Chats :
       SecondComment(c) =>
         lastCall'.clock - commented_at[c] >= lastCall'.min_time]_vars

\* C24 (amended): two autonomous comments of one chat are never delivered
\* less than min_time_between_comments_seconds apart, as long as the state of
\* the chat still holds a last_comment_time that is not earlier than the
\* first delivery, that is, /context has not discarded it in between; the
\* handlers run one update at a time.
C24_CommentsApartWhileStateKept ==
  [][\A c \in Chats :
       (SecondComment(c)
        /\ lastCall'.last_comment_time # NoTime
        /\ lastCall'.last_comment_time >= commented_at[c])
         => lastCall'.clock - commented_at[c] >= lastCall'.min_time]_vars

\* A second autonomous comment of a chat, delivered after a cooling period
\* that is not zero, by the state that recorded the first.
C24_Witness ==
  /\ lastCall.called /\ lastCall.delivered
  /\ lastCall.last_comment_time # NoTime
  /\ lastCall.last_comment_time = lastCall.marked_at
  /\ lastCall.min_time > 0
  /\ commented_at[lastCall.chat] = lastCall.clock
  /\ lastCall.clock - lastCall.last_comment_time >= lastCall.min_time

\* ------------------------------------------------------------------- C26
\* The last two messages of the window the call read (fewer when the window
\* holds fewer).
LastTwo(call) == LastN(call.state.recent_messages, 2)

\* The bot was the target of the two most recent replies: every one of the
\* last two messages is a reply to the bot.
BotTargetOfLastTwo(call) ==
  /\ LastTwo(call) # <<>>
  /\ \A i \in 1..Len(LastTwo(call)) : LastTwo(call)[i].reply_to_bot

\* One of the last two messages is a reply to the bot.
BotTargetOfOneOfLastTwo(call) ==
  \E i \in 1..Len(LastTwo(call)) : LastTwo(call)[i].reply_to_bot

\* should_comment reached the contextual check: the draw passed and the
\* intelligent gate is enabled.
ContextualCheckRan ==
  /\ lastCall.called
  /\ config.use_intelligent_decision
  /\ lastCall.outcome \in {"ok", "bad_time"}

\* C26: the contextual check returns false only when the bot was the target
\* of the two most recent replies, and true in every other situation.
C26_FalseOnlyAfterTwoReplies ==
  ContextualCheckRan =>
    (lastCall.outcome = "bad_time" <=> BotTargetOfLastTwo(lastCall))

\* C26 (amended): the contextual check returns false exactly when one of the
\* two most recent tracked messages is a reply to the bot, or the window is
\* empty, and true in every other situation.
C26_FalseAfterOneReply ==
  ContextualCheckRan =>
    (lastCall.outcome = "bad_time" <=>
       \/ lastCall.state.recent_messages = <<>>
       \/ BotTargetOfOneOfLastTwo(lastCall))

\* The check said no on a window whose last two messages are a reply to the
\* bot and a message that is none.
C26_Witness ==
  /\ ContextualCheckRan
  /\ lastCall.outcome = "bad_time"
  /\ Len(LastTwo(lastCall)) = 2
  /\ BotTargetOfOneOfLastTwo(lastCall)
  /\ ~BotTargetOfLastTwo(lastCall)

\* The check said yes on a window of one user without a reply to the bot.
C26_WitnessDefault ==
  /\ ContextualCheckRan
  /\ lastCall.outcome = "ok"
  /\ Cardinality({lastCall.state.recent_messages[i].user :
                    i \in 1..Len(lastCall.state.recent_messages)}) = 1

\* ------------------------------------------------------------------- C27
\* The engagement state of chat c, if it has one.
EngagementOf(states, c) ==
  IF c \in DOMAIN states THEN [present |-> TRUE, state |-> states[c]]
  ELSE [present |-> FALSE]

\* The last-reaction time of chat c, if it has one.
ReactionTimeOf(rm, c) ==
  IF c \in DOMAIN rm.last_reaction_time THEN rm.last_reaction_time[c]
  ELSE NoTime

\* The chats the operations of this step worked on.
OperatedChats ==
  {c \in Chats :
     \/ lastCall'.called /\ lastCall'.chat = c
     \/ lastMark'.called /\ lastMark'.chat = c
     \/ lastOp'.called /\ lastOp'.chat = c}

OnlyThresholdRerolled(st, r, chat) ==
  /\ chat \in DOMAIN r.states
  /\ r.states[chat].messages_since_last_comment
       = st.messages_since_last_comment
  /\ r.states[chat].last_comment_time = st.last_comment_time
  /\ r.states[chat].recent_messages = st.recent_messages
  /\ r.states[chat].next_comment_threshold # st.next_comment_threshold
       => r.outcome = "draw_failed"
  /\ r.outcome # "draw_failed" => r.states[chat] = st

\* C29: whatever should_comment returns, it leaves messages_since_last_comment,
\* last_comment_time and the window of recent messages of an existing chat
\* state as they were; only next_comment_threshold may change, and only on a
\* failed probability draw.
C29_ShouldCommentFrame ==
  \A chat \in DOMAIN chat_states, cfg \in EngineConfigs, draw \in Draws,
     clock \in now..MaxTime :
    \A reroll \in RandomThreshold(cfg) :
      OnlyThresholdRerolled(chat_states[chat],
                            should_comment(chat_states, cfg, chat, clock,
                                           reroll, draw, reroll),
                            chat)

\* A should_comment call on an existing state whose draw failed and whose
\* threshold was drawn anew to another value.
C29_Witness ==
  /\ lastCall.called
  /\ lastCall.outcome = "draw_failed"
  /\ lastCall.threshold_after # lastCall.threshold_before
  /\ lastCall.chat \in DOMAIN chat_states
  /\ chat_states[lastCall.chat].messages_since_last_comment
       = lastCall.messages_since_last_comment
  /\ chat_states[lastCall.chat].messages_since_last_comment > 0

\* ------------------------------------------------------------------- C30
\* sum(counts.values())
RECURSIVE SumOver(_, _)
SumOver(counts, keys) ==
  IF keys = {} THEN 0
  ELSE counts[CHOOSE k \in keys : TRUE]
         + SumOver(counts, keys \ {CHOOSE k \in keys : TRUE})

SumCounts(counts) == SumOver(counts, DOMAIN counts)

ReactionsAddUp(patterns) ==
  /\ patterns.total_reactions = SumCounts(patterns.favorite_reactions)
  /\ patterns.total_reactions = SumCounts(patterns.emotional_responses)

\* C30: in every profile total_reactions is the sum of the counts of
\* favorite_reactions and the sum of the counts of emotional_responses, after
\* any sequence of track_reaction calls, saves and restarts.
C30_ReactionSums ==
  /\ \A u \in DOMAIN profiles : ReactionsAddUp(profiles[u].reaction_patterns)
  /\ lastStore.called /\ lastStore.op = "track_reaction" =>
       /\ ReactionsAddUp(lastStore.loaded.reaction_patterns)
       /\ lastStore.after.reaction_patterns.total_reactions
            = lastStore.loaded.reaction_patterns.total_reactions
                + Len(lastStore.emojis)

\* A track_reaction on a profile that already counts several reactions, with
\* two emojis counted after it, one of them more than once.
C30_Witness ==
  /\ lastStore.called /\ lastStore.op = "track_reaction"
  /\ lastStore.loaded.reaction_patterns.total_reactions >= 2
  /\ Cardinality(DOMAIN lastStore.after.reaction_patterns.favorite_reactions)
       >= 2
  /\ \E e \in DOMAIN lastStore.after.reaction_patterns.favorite_reactions :
       lastStore.after.reaction_patterns.favorite_reactions[e] >= 2

\* ------------------------------------------------------------------- C25
\* Autonomous commenting is enabled and chat c is not excluded.
Commenting(c) == config.enabled /\ c \notin config.excluded_chats

\* An autonomous comment was delivered to chat c and mark_commented has
\* reset the state of the chat.
CycleCompleted(c) ==
  /\ lastCall.called /\ lastCall.chat = c /\ lastCall.delivered
  /\ lastMark.called
  /\ chat_states[c].messages_since_last_comment = 0
  /\ chat_states[c].last_comment_time = lastCall.clock

\* C25: with commenting enabled and the chat not excluded, when messages of
\* the group keep arriving, the draw succeeds in the end and the provider
\* returns a valid comment, a comment is eventually delivered and
\* mark_commented resets the state of the chat.
C25_CycleCompletes == Commenting(1) => <>CycleCompleted(1)

\* With use_ai_decision on, nothing is generated or delivered, whatever
\* should_comment returns.
C25_NeverDeliveredWithAiCheck ==
  config.use_ai_decision =>
    /\ commented_at[1] = NoTime
    /\ lastCall.called => ~lastCall.generated.ok /\ ~lastCall.delivered

\* should_comment returned true with use_ai_decision on.
C25_Triggered ==
  config.use_ai_decision /\ lastCall.called /\ lastCall.result

====
